---- MODULE Spec2Model ----
(***************************************************************************)
(* State-machine model of the Kademlia-style routing table (package dht,   *)
(* src/unnamed/part_000) and of the swarm Node that serves RPCs on top of  *)
(* it (package swarm, src/node.go).                                        *)
(*                                                                         *)
(* Each goroutine is a process with a program counter.  A call of a DHT    *)
(* method is a small procedure: the locking wrapper, the body in two       *)
(* steps (the read of the bucket, the write of the bucket) and the         *)
(* deferred unlock, which returns to the caller's label.                   *)
(***************************************************************************)
EXTENDS Integers, Sequences, FiniteSets, TLC

(***************************************************************************)
(* Size of the model.                                                      *)
(***************************************************************************)
IDLengthInBits == 3
MaxBucketSize == 2
MaxOps == 4

Procs == {1, 2}
OwnerAddrs == {0}
PeerAddrs == {0, 2} \cup (4 .. (4 + MaxBucketSize))
RoamingAddrs == {4}

(***************************************************************************)
(* identity.Address and identity.MultiAddress.                             *)
(***************************************************************************)
NoAddr == 0 - 1
Addresses == 0 .. (2 ^ IDLengthInBits - 1)

MultiAddress(a, t) == [addr |-> a, tr |-> t]
BadMulti == MultiAddress(NoAddr, 1)
Multis ==
    {MultiAddress(a, 1) : a \in PeerAddrs} \cup {MultiAddress(a, 2) : a \in RoamingAddrs}
NoMulti == MultiAddress(NoAddr, 0)

Address(multi) == multi.addr
AddressErr(multi) == multi.addr = NoAddr

Bit(a, i) == (a \div (2 ^ (IDLengthInBits - 1 - i))) % 2

SamePrefixLength(a, b) ==
    LET diff == {i \in 0 .. (IDLengthInBits - 1) : Bit(a, i) # Bit(b, i)}
    IN  IF diff = {} THEN IDLengthInBits
        ELSE CHOOSE i \in diff : \A j \in diff : i <= j

RECURSIVE XorFrom(_, _, _)
XorFrom(a, b, i) ==
    IF i = IDLengthInBits THEN 0
    ELSE (IF Bit(a, i) # Bit(b, i) THEN 2 ^ (IDLengthInBits - 1 - i) ELSE 0)
         + XorFrom(a, b, i + 1)

Distance(a, b) == XorFrom(a, b, 0)

Closer(left, right, target) == Distance(left, target) < Distance(right, target)

(***************************************************************************)
(* Errors.                                                                 *)
(***************************************************************************)
NoErr == "nil"
ErrFullBucket == "ErrFullBucket"
ErrDHTAddress == "ErrDHTAddress"
ErrMultiAddress == "ErrMultiAddress"
ErrTransport == "ErrTransport"
ErrStream == "ErrStream"
ErrCanceled == "context canceled"
ErrEmptyDHT == "empty dht"
ErrNotFound == "cannot find target"

(***************************************************************************)
(* Options of the node.                                                    *)
(***************************************************************************)
Alpha == 2
TimeoutRetries == 2
Timeout == 1
TimeoutStep == 2
BootstrapMultiAddresses == <<MultiAddress(2, 1), MultiAddress(0, 1)>>
BootstrapReplies == {<<>>, <<MultiAddress(0, 1), MultiAddress(5, 1)>>}

(***************************************************************************)
(* Bucket: a sequence of entries, oldest first.                            *)
(***************************************************************************)
Entry(multi, time) == [multi |-> multi, time |-> time]

\* Index of the first entry of the bucket with the target address, 0 if none.
IndexOf(bucket, target) ==
    LET hits == {i \in 1 .. Len(bucket) : Address(bucket[i].multi) = target}
    IN  IF hits = {} THEN 0 ELSE CHOOSE i \in hits : \A j \in hits : i <= j

FindMultiAddress(bucket, target) ==
    IF IndexOf(bucket, target) = 0 THEN NoMulti
    ELSE bucket[IndexOf(bucket, target)].multi

\* A capacity test that is off by one: full only once the cap is exceeded.
IsFull_OffByOne(bucket) == Len(bucket) = MaxBucketSize + 1

IsFull(bucket) == Len(bucket) = MaxBucketSize

BucketMultiAddresses(bucket) == [i \in 1 .. Len(bucket) |-> bucket[i].multi]


(***************************************************************************)
(* State.                                                                  *)
(*   A         the owner's address (DHT.Address)                           *)
(*   Buckets   DHT.Buckets, indexed 0 .. IDLengthInBits-1                  *)
(*   mu        the RWMutex: the writer holding it and the readers          *)
(*   clock     time.Now(), advanced at every append                        *)
(*   ops       number of top-level operations started so far               *)
(*   inserted  history: every MultiAddress a caller passed to DHT.Update   *)
(*   pc, loc   program counter and locals of each goroutine                *)
(***************************************************************************)
VARIABLES A, Buckets, mu, clock, ops, inserted, pc, loc

vars == <<A, Buckets, mu, clock, ops, inserted, pc, loc>>

BucketIndexes == 0 .. (IDLengthInBits - 1)
NoProc == 0
NoBucket == 0 - 1

InitLoc ==
    [arg |-> NoMulti, target |-> NoAddr, query |-> NoAddr, ret |-> "idle", bkt |-> NoBucket,
     idx |-> 0, err |-> NoErr, found |-> NoMulti, multis |-> <<>>,
     num |-> 0, cur |-> 0,
     from |-> NoMulti, hret |-> "idle", uerr |-> NoErr, oldest |-> NoMulti,
     seen |-> <<>>,
     notified |-> FALSE, resp |-> <<>>, herr |-> NoErr,
     boot |-> 0, attempt |-> 0, peers |-> <<>>, peer |-> 0,
     timeout |-> 0, tries |-> 0, failures |-> 0,
     frontier |-> <<>>, black |-> {}, white |-> {}, stream |-> <<>>,
     candidates |-> <<>>, expanding |-> NoMulti,
     popped |-> <<>>, expanded |-> <<>>, failed |-> {}, first |-> {},
     honest |-> TRUE, scan |-> 0,
     kind |-> "none", ctx |-> "none", handler |-> "none", wait |-> <<>>,
     result |-> NoErr,
     to |-> NoAddr, open |-> <<>>, closed |-> {}, targetMulti |-> NoMulti,
     openMu |-> 0, asyncRoutines |-> 0, i |-> 0, multi |-> NoMulti,
     openRead |-> <<>>, workers |-> <<>>, reported |-> {}]

Init ==
    /\ A \in OwnerAddrs
    /\ Buckets = [i \in BucketIndexes |-> <<>>]
    /\ mu = [w |-> NoProc, r |-> {}]
    /\ clock = 0
    /\ ops = 0
    /\ inserted = {}
    /\ pc = [p \in Procs |-> "idle"]
    /\ loc = [p \in Procs |-> InitLoc]

(***************************************************************************)
(* sync.RWMutex.                                                           *)
(***************************************************************************)
\* A lock that excludes nobody: writers enter while another writer is inside.
CanLock_NoExclusion(p) == TRUE

CanLock(p) == mu.w = NoProc /\ mu.r = {}
\* A read lock that does not wait for the writer.
CanRLock_IgnoresWriter(p) == TRUE

CanRLock(p) == mu.w = NoProc

Lock(p) == [mu EXCEPT !.w = p]
Unlock(p) == [mu EXCEPT !.w = NoProc]
RLock(p) == [mu EXCEPT !.r = @ \cup {p}]
RUnlock(p) == [mu EXCEPT !.r = @ \ {p}]

(***************************************************************************)
(* DHT.findBucket: the index of the bucket of the target, NoBucket for the *)
(* owner's own address (ErrDHTAddress).                                    *)
(***************************************************************************)
\* findBucket that forgets to count from the far end of the table.
findBucket_PrefixIndex(target) ==
    IF SamePrefixLength(A, target) = IDLengthInBits THEN NoBucket
    ELSE SamePrefixLength(A, target)

\* findBucket that clamps the index of the owner's address instead of
\* refusing it.
findBucket_ClampsSelf(target) ==
    IF SamePrefixLength(A, target) = IDLengthInBits THEN 0
    ELSE IDLengthInBits - SamePrefixLength(A, target) - 1

findBucket(target) ==
    IF SamePrefixLength(A, target) = IDLengthInBits THEN NoBucket
    ELSE IDLengthInBits - SamePrefixLength(A, target) - 1

\* update that keeps the stored MultiAddress of an address it already holds.
updateEntry_KeepsOld(bucket, i, multi, now) ==
    IF i > 0
    THEN [bucket |-> bucket, err |-> NoErr]
    ELSE IF IsFull(bucket)
         THEN [bucket |-> bucket, err |-> ErrFullBucket]
         ELSE [bucket |-> Append(bucket, Entry(multi, now)), err |-> NoErr]

\* update that moves a stored address to the end with a new time.
updateEntry_Refreshes(bucket, i, multi, now) ==
    IF i > 0
    THEN [bucket |-> Append(SubSeq(bucket, 1, i - 1)
                            \o SubSeq(bucket, i + 1, Len(bucket)),
                            Entry(multi, now)),
          err |-> NoErr]
    ELSE IF IsFull(bucket)
         THEN [bucket |-> bucket, err |-> ErrFullBucket]
         ELSE [bucket |-> Append(bucket, Entry(multi, now)), err |-> NoErr]

\* update that makes room in a full bucket by dropping its oldest entry.
updateEntry_EvictsOldest(bucket, i, multi, now) ==
    IF i > 0
    THEN [bucket |-> [bucket EXCEPT ![i].multi = multi], err |-> NoErr]
    ELSE IF IsFull(bucket)
         THEN [bucket |-> Append(Tail(bucket), Entry(multi, now)),
               err |-> NoErr]
         ELSE [bucket |-> Append(bucket, Entry(multi, now)), err |-> NoErr]

(***************************************************************************)
(* The write half of DHT.update on the bucket found: replace in place,     *)
(* refuse a full bucket, or append with the current time.                  *)
(***************************************************************************)
updateEntry(bucket, i, multi, now) ==
    IF i > 0
    THEN [bucket |-> [bucket EXCEPT ![i].multi = multi], err |-> NoErr]
    ELSE IF IsFull(bucket)
         THEN [bucket |-> bucket, err |-> ErrFullBucket]
         ELSE [bucket |-> Append(bucket, Entry(multi, now)), err |-> NoErr]

\* remove that always takes the branch of the last entry: it truncates.
removeEntry_Truncates(bucket, removeIndex) ==
    IF removeIndex > 0 THEN SubSeq(bucket, 1, removeIndex - 1) ELSE bucket

(***************************************************************************)
(* The write half of DHT.remove: excise the entry at removeIndex.          *)
(***************************************************************************)
removeEntry(bucket, removeIndex) ==
    IF removeIndex > 0
    THEN IF removeIndex = Len(bucket)
         THEN SubSeq(bucket, 1, removeIndex - 1)
         ELSE SubSeq(bucket, 1, removeIndex - 1)
              \o SubSeq(bucket, removeIndex + 1, Len(bucket))
    ELSE bucket

Goto(p, label) == pc' = [pc EXCEPT ![p] = label]

\* Return from a DHT method to the caller's label: the locals of the method
\* are gone and the caller has its error; a goroutine that goes back to idle
\* has consumed the results.
Return(p) ==
    /\ pc' = [pc EXCEPT ![p] = loc[p].ret]
    /\ loc' = IF loc[p].ret = "idle"
              THEN [loc EXCEPT ![p] = InitLoc]
              ELSE [loc EXCEPT ![p].arg = NoMulti, ![p].bkt = NoBucket,
                               ![p].idx = 0, ![p].ret = "idle"]

(***************************************************************************)
(* DHT.Update(multi).                                                      *)
(***************************************************************************)
\* DHT.Update: take the exclusive lock.
Update(p) ==
    /\ pc[p] = "Update"
    /\ CanLock(p)
    /\ mu' = Lock(p)
    /\ Goto(p, "update")
    /\ UNCHANGED <<A, Buckets, clock, ops, inserted, loc>>

\* DHT.update, first half: the address, its bucket, the scan for the address.
update(p) ==
    /\ pc[p] = "update"
    /\ IF AddressErr(loc[p].arg)
       THEN /\ loc' = [loc EXCEPT ![p].err = ErrMultiAddress]
            /\ Goto(p, "Update_ret")
       ELSE IF findBucket(Address(loc[p].arg)) = NoBucket
       THEN /\ loc' = [loc EXCEPT ![p].err = ErrDHTAddress]
            /\ Goto(p, "Update_ret")
       ELSE /\ loc' = [loc EXCEPT
                   ![p].bkt = findBucket(Address(loc[p].arg)),
                   ![p].idx = IndexOf(Buckets[findBucket(Address(loc[p].arg))],
                                      Address(loc[p].arg))]
            /\ Goto(p, "update_write")
    /\ UNCHANGED <<A, Buckets, mu, clock, ops, inserted>>

\* DHT.update, second half: the write of the bucket.
update_write(p) ==
    LET b == loc[p].bkt
        r == updateEntry(Buckets[b], loc[p].idx, loc[p].arg, clock + 1)
    IN  /\ pc[p] = "update_write"
        /\ IF loc[p].idx > Len(Buckets[b])
           THEN /\ Goto(p, "panic")
                /\ UNCHANGED <<Buckets, clock, loc>>
           ELSE /\ Buckets' = [Buckets EXCEPT ![b] = r.bucket]
                /\ clock' = IF Len(r.bucket) > Len(Buckets[b]) THEN clock + 1 ELSE clock
                /\ loc' = [loc EXCEPT ![p].err = r.err]
                /\ Goto(p, "Update_ret")
        /\ UNCHANGED <<A, mu, ops, inserted>>

\* The deferred Unlock; return to the caller.
Update_ret(p) ==
    /\ pc[p] = "Update_ret"
    /\ mu' = Unlock(p)
    /\ Return(p)
    /\ UNCHANGED <<A, Buckets, clock, ops, inserted>>

(***************************************************************************)
(* DHT.Remove(multi).                                                      *)
(***************************************************************************)
Remove(p) ==
    /\ pc[p] = "Remove"
    /\ CanLock(p)
    /\ mu' = Lock(p)
    /\ Goto(p, "remove")
    /\ UNCHANGED <<A, Buckets, clock, ops, inserted, loc>>

\* DHT.remove, first half: the address, its bucket, the scan for removeIndex.
remove(p) ==
    /\ pc[p] = "remove"
    /\ IF AddressErr(loc[p].arg)
       THEN /\ loc' = [loc EXCEPT ![p].err = ErrMultiAddress]
            /\ Goto(p, "Remove_ret")
       ELSE IF findBucket(Address(loc[p].arg)) = NoBucket
       THEN /\ loc' = [loc EXCEPT ![p].err = ErrDHTAddress]
            /\ Goto(p, "Remove_ret")
       ELSE /\ loc' = [loc EXCEPT
                   ![p].bkt = findBucket(Address(loc[p].arg)),
                   ![p].idx = IndexOf(Buckets[findBucket(Address(loc[p].arg))],
                                      Address(loc[p].arg))]
            /\ Goto(p, "remove_write")
    /\ UNCHANGED <<A, Buckets, mu, clock, ops, inserted>>

\* DHT.remove, second half: the excision.
remove_write(p) ==
    LET b == loc[p].bkt
    IN  /\ pc[p] = "remove_write"
        /\ IF loc[p].idx > Len(Buckets[b])
           THEN /\ Goto(p, "panic")
                /\ UNCHANGED <<Buckets, loc>>
           ELSE /\ Buckets' = [Buckets EXCEPT ![b] = removeEntry(@, loc[p].idx)]
                /\ loc' = [loc EXCEPT ![p].err = NoErr]
                /\ Goto(p, "Remove_ret")
        /\ UNCHANGED <<A, mu, clock, ops, inserted>>

Remove_ret(p) ==
    /\ pc[p] = "Remove_ret"
    /\ mu' = Unlock(p)
    /\ Return(p)
    /\ UNCHANGED <<A, Buckets, clock, ops, inserted>>


(***************************************************************************)
(* DHT.FindMultiAddress(target).                                           *)
(***************************************************************************)
DHTFindMultiAddress(p) ==
    /\ pc[p] = "FindMultiAddress"
    /\ CanRLock(p)
    /\ mu' = RLock(p)
    /\ Goto(p, "findMultiAddress")
    /\ UNCHANGED <<A, Buckets, clock, ops, inserted, loc>>

\* DHT.findMultiAddress: the bucket of the target, then Bucket.FindMultiAddress,
\* which returns a pointer to a copy of the entry's MultiAddress.
findMultiAddress(p) ==
    /\ pc[p] = "findMultiAddress"
    /\ IF findBucket(loc[p].target) = NoBucket
       THEN loc' = [loc EXCEPT ![p].err = ErrDHTAddress, ![p].found = NoMulti]
       ELSE loc' = [loc EXCEPT
                ![p].err = NoErr,
                ![p].found = FindMultiAddress(Buckets[findBucket(loc[p].target)],
                                              loc[p].target)]
    /\ Goto(p, "FindMultiAddress_ret")
    /\ UNCHANGED <<A, Buckets, mu, clock, ops, inserted>>

FindMultiAddress_ret(p) ==
    /\ pc[p] = "FindMultiAddress_ret"
    /\ mu' = RUnlock(p)
    /\ Return(p)
    /\ UNCHANGED <<A, Buckets, clock, ops, inserted>>

(***************************************************************************)
(* DHT.MultiAddresses().                                                   *)
(***************************************************************************)
RECURSIVE SumLen(_, _)
SumLen(buckets, i) ==
    IF i = IDLengthInBits THEN 0 ELSE Len(buckets[i]) + SumLen(buckets, i + 1)

DHTMultiAddresses(p) ==
    /\ pc[p] = "MultiAddresses"
    /\ CanRLock(p)
    /\ mu' = RLock(p)
    /\ Goto(p, "multiAddresses")
    /\ UNCHANGED <<A, Buckets, clock, ops, inserted, loc>>

\* DHT.multiAddresses, first loop: count the entries and make the slice.
multiAddresses(p) ==
    /\ pc[p] = "multiAddresses"
    /\ loc' = [loc EXCEPT ![p].num = SumLen(Buckets, 0), ![p].multis = <<>>,
                          ![p].cur = 0]
    /\ Goto(p, "multiAddresses_copy")
    /\ UNCHANGED <<A, Buckets, mu, clock, ops, inserted>>

\* DHT.multiAddresses, second loop: copy one bucket per step; writing past
\* the slice made by the first loop is an index-out-of-range panic.
multiAddresses_copy(p) ==
    /\ pc[p] = "multiAddresses_copy"
    /\ IF loc[p].cur = IDLengthInBits
       THEN /\ Goto(p, "MultiAddresses_ret")
            /\ UNCHANGED loc
       ELSE IF Len(loc[p].multis) + Len(Buckets[loc[p].cur]) > loc[p].num
       THEN /\ Goto(p, "panic")
            /\ UNCHANGED loc
       ELSE /\ loc' = [loc EXCEPT
                   ![p].multis = @ \o BucketMultiAddresses(Buckets[loc[p].cur]),
                   ![p].cur = @ + 1]
            /\ UNCHANGED pc
    /\ UNCHANGED <<A, Buckets, mu, clock, ops, inserted>>

MultiAddresses_ret(p) ==
    /\ pc[p] = "MultiAddresses_ret"
    /\ mu' = RUnlock(p)
    /\ Return(p)
    /\ UNCHANGED <<A, Buckets, clock, ops, inserted>>

(***************************************************************************)
(* Callers of the table: a goroutine that is idle starts one operation.    *)
(***************************************************************************)
CallUpdate(p) ==
    /\ pc[p] = "idle"
    /\ ops < MaxOps
    /\ \E multi \in Multis \cup {BadMulti} :
          /\ loc' = [loc EXCEPT ![p] = [InitLoc EXCEPT !.arg = multi]]
          /\ inserted' = inserted \cup {multi}
    /\ Goto(p, "Update")
    /\ ops' = ops + 1
    /\ UNCHANGED <<A, Buckets, mu, clock>>

CallRemove(p) ==
    /\ pc[p] = "idle"
    /\ ops < MaxOps
    /\ \E multi \in Multis \cup {BadMulti} :
          loc' = [loc EXCEPT ![p] = [InitLoc EXCEPT !.arg = multi]]
    /\ Goto(p, "Remove")
    /\ ops' = ops + 1
    /\ UNCHANGED <<A, Buckets, mu, clock, inserted>>

CallFindMultiAddress(p) ==
    /\ pc[p] = "idle"
    /\ ops < MaxOps
    /\ \E target \in PeerAddrs :
          loc' = [loc EXCEPT ![p] = [InitLoc EXCEPT !.target = target]]
    /\ Goto(p, "FindMultiAddress")
    /\ ops' = ops + 1
    /\ UNCHANGED <<A, Buckets, mu, clock, inserted>>

CallMultiAddresses(p) ==
    /\ pc[p] = "idle"
    /\ ops < MaxOps
    /\ loc' = [loc EXCEPT ![p] = InitLoc]
    /\ Goto(p, "MultiAddresses")
    /\ ops' = ops + 1
    /\ UNCHANGED <<A, Buckets, mu, clock, inserted>>

(***************************************************************************)
(* Node.updatePeer(peer): the write path of every served RPC.              *)
(***************************************************************************)
\* Call a DHT method on multi and come back at label.
CallDHT(p, method, multi, label) ==
    /\ loc' = [loc EXCEPT ![p].arg = multi, ![p].ret = label]
    /\ Goto(p, method)

\* Return from updatePeer to the handler with the error e.
ReturnPeer(p, e) ==
    /\ loc' = [loc EXCEPT ![p].uerr = e, ![p].err = NoErr, ![p].target = NoAddr,
                          ![p].bkt = NoBucket, ![p].oldest = NoMulti,
                          ![p].seen = <<>>]
    /\ Goto(p, loc[p].hret)

\* Decode the peer, ignore the node's own address, then DHT.Update.
updatePeer(p) ==
    /\ pc[p] = "updatePeer"
    /\ IF AddressErr(loc[p].from)
       THEN ReturnPeer(p, ErrMultiAddress)
       ELSE IF Address(loc[p].from) = A
       THEN ReturnPeer(p, NoErr)
       ELSE CallDHT(p, "Update", loc[p].from, "updatePeer_updated")
    /\ UNCHANGED <<A, Buckets, mu, clock, ops, inserted>>

\* The result of the first Update: done, or a full bucket to prune.
updatePeer_updated(p) ==
    /\ pc[p] = "updatePeer_updated"
    /\ IF loc[p].err = NoErr
       THEN ReturnPeer(p, NoErr)
       ELSE IF loc[p].err = ErrFullBucket
       THEN /\ Goto(p, "Prune")
            /\ loc' = [loc EXCEPT ![p].target = Address(loc[p].from)]
       ELSE ReturnPeer(p, loc[p].err)
    /\ UNCHANGED <<A, Buckets, mu, clock, ops, inserted>>

(***************************************************************************)
(* Node.Prune(target).  DHT.FindBucket hands out a reference to the live   *)
(* bucket; its length and its first entry are read after the read lock is  *)
(* released, each at its own moment.                                       *)
(***************************************************************************)
Prune(p) ==
    /\ pc[p] = "Prune"
    /\ CanRLock(p)
    /\ IF findBucket(loc[p].target) = NoBucket
       THEN ReturnPeer(p, ErrDHTAddress)
       ELSE /\ loc' = [loc EXCEPT ![p].bkt = findBucket(loc[p].target)]
            /\ Goto(p, "Prune_length")
    /\ UNCHANGED <<A, Buckets, mu, clock, ops, inserted>>

Prune_length(p) ==
    /\ pc[p] = "Prune_length"
    /\ IF Len(Buckets[loc[p].bkt]) = 0
       THEN ReturnPeer(p, NoErr)
       ELSE /\ Goto(p, "Prune_oldest")
            /\ UNCHANGED loc
    /\ UNCHANGED <<A, Buckets, mu, clock, ops, inserted>>

\* A Prune that probes the newest entry of the bucket instead of the oldest.
Prune_oldest_ReadsNewest(p) ==
    /\ pc[p] = "Prune_oldest"
    /\ IF Len(Buckets[loc[p].bkt]) = 0
       THEN /\ Goto(p, "panic")
            /\ UNCHANGED loc
       ELSE /\ loc' = [loc EXCEPT
                   ![p].oldest = Buckets[loc[p].bkt][Len(Buckets[loc[p].bkt])].multi,
                   ![p].seen = Buckets[loc[p].bkt]]
            /\ Goto(p, "Prune_ping")
    /\ UNCHANGED <<A, Buckets, mu, clock, ops, inserted>>

\* bucket.MultiAddresses[0]: an index-out-of-range panic on an empty bucket.
Prune_oldest(p) ==
    /\ pc[p] = "Prune_oldest"
    /\ IF Len(Buckets[loc[p].bkt]) = 0
       THEN /\ Goto(p, "panic")
            /\ UNCHANGED loc
       ELSE /\ loc' = [loc EXCEPT ![p].oldest = Buckets[loc[p].bkt][1].multi,
                                  ![p].seen = Buckets[loc[p].bkt]]
            /\ Goto(p, "Prune_ping")
    /\ UNCHANGED <<A, Buckets, mu, clock, ops, inserted>>

\* rpc.PingTarget succeeds or fails; remove the entry or update it.
Prune_ping(p) ==
    /\ pc[p] = "Prune_ping"
    /\ \E alive \in BOOLEAN :
          IF alive
          THEN CallDHT(p, "Update", loc[p].oldest, "Prune_updated")
          ELSE CallDHT(p, "Remove", loc[p].oldest, "Prune_removed")
    /\ UNCHANGED <<A, Buckets, mu, clock, ops, inserted>>

\* Prune returned (true, err): updatePeer returns err, or updates again.
Prune_removed(p) ==
    /\ pc[p] = "Prune_removed"
    /\ IF loc[p].err # NoErr
       THEN ReturnPeer(p, loc[p].err)
       ELSE CallDHT(p, "Update", loc[p].from, "updatePeer_retried")
    /\ UNCHANGED <<A, Buckets, mu, clock, ops, inserted>>

\* Prune returned (false, err): updatePeer returns err, or nil.
Prune_updated(p) ==
    /\ pc[p] = "Prune_updated"
    /\ ReturnPeer(p, loc[p].err)
    /\ UNCHANGED <<A, Buckets, mu, clock, ops, inserted>>

updatePeer_retried(p) ==
    /\ pc[p] = "updatePeer_retried"
    /\ ReturnPeer(p, loc[p].err)
    /\ UNCHANGED <<A, Buckets, mu, clock, ops, inserted>>

(***************************************************************************)
(* Node.ping(from).                                                        *)
(***************************************************************************)
ping(p) ==
    /\ pc[p] = "ping"
    /\ IF AddressErr(loc[p].from)
       THEN /\ loc' = [loc EXCEPT ![p].uerr = ErrMultiAddress]
            /\ Goto(p, "ping_done")
       ELSE /\ loc' = [loc EXCEPT ![p].notified = TRUE, ![p].hret = "ping_done"]
            /\ Goto(p, "updatePeer")
    /\ UNCHANGED <<A, Buckets, mu, clock, ops, inserted>>

(***************************************************************************)
(* Package x: Node.handlePing(peer) and Node.pruneMostRecentPeer(target).  *)
(***************************************************************************)
\* Return from handlePing with the error e.
ReturnPing(p, e) ==
    /\ loc' = [loc EXCEPT ![p].uerr = e, ![p].err = NoErr, ![p].target = NoAddr,
                          ![p].bkt = NoBucket, ![p].oldest = NoMulti,
                          ![p].seen = <<>>]
    /\ Goto(p, "handlePing_done")

\* Decode the peer, notify the delegate, then DHT.Update.
handlePing(p) ==
    /\ pc[p] = "handlePing"
    /\ IF AddressErr(loc[p].from)
       THEN ReturnPing(p, ErrMultiAddress)
       ELSE /\ loc' = [loc EXCEPT ![p].notified = TRUE, ![p].arg = loc[p].from,
                                  ![p].ret = "handlePing_updated"]
            /\ Goto(p, "Update")
    /\ UNCHANGED <<A, Buckets, mu, clock, ops, inserted>>

\* The result of the first Update: a full bucket is pruned, anything else
\* is returned.
handlePing_updated(p) ==
    /\ pc[p] = "handlePing_updated"
    /\ IF loc[p].err = ErrFullBucket
       THEN /\ Goto(p, "pruneMostRecentPeer")
            /\ loc' = [loc EXCEPT ![p].target = Address(loc[p].from)]
       ELSE ReturnPing(p, loc[p].err)
    /\ UNCHANGED <<A, Buckets, mu, clock, ops, inserted>>

\* DHT.FindBucket(target), under the read lock.
pruneMostRecentPeer(p) ==
    /\ pc[p] = "pruneMostRecentPeer"
    /\ CanRLock(p)
    /\ IF findBucket(loc[p].target) = NoBucket
       THEN ReturnPing(p, ErrDHTAddress)
       ELSE /\ loc' = [loc EXCEPT ![p].bkt = findBucket(loc[p].target)]
            /\ Goto(p, "pruneMostRecentPeer_oldest")
    /\ UNCHANGED <<A, Buckets, mu, clock, ops, inserted>>

\* bucket.OldestMultiAddress(): nil for an empty bucket, else a pointer to
\* the MultiAddress in the first slot.
pruneMostRecentPeer_oldest(p) ==
    /\ pc[p] = "pruneMostRecentPeer_oldest"
    /\ IF Len(Buckets[loc[p].bkt]) = 0
       THEN ReturnPing(p, NoErr)
       ELSE /\ loc' = [loc EXCEPT ![p].oldest = Buckets[loc[p].bkt][1].multi,
                                  ![p].seen = Buckets[loc[p].bkt]]
            /\ Goto(p, "pruneMostRecentPeer_ping")
    /\ UNCHANGED <<A, Buckets, mu, clock, ops, inserted>>

\* *multi: what the first slot of the bucket holds when it is read.
FirstSlot(p) ==
    IF Len(Buckets[loc[p].bkt]) > 0 THEN Buckets[loc[p].bkt][1].multi
    ELSE loc[p].oldest

\* node.RPCPing(*multi) fails, and the peer is removed, or it answers with
\* the MultiAddress of the peer, which is updated.
pruneMostRecentPeer_ping(p) ==
    /\ pc[p] = "pruneMostRecentPeer_ping"
    /\ \/ CallDHT(p, "Remove", FirstSlot(p), "pruneMostRecentPeer_removed")
       \/ \E newMulti \in Multis :
             CallDHT(p, "Update", newMulti, "pruneMostRecentPeer_updated")
    /\ UNCHANGED <<A, Buckets, mu, clock, ops, inserted>>

\* pruneMostRecentPeer returned (true, err): return err, or update again.
pruneMostRecentPeer_removed(p) ==
    /\ pc[p] = "pruneMostRecentPeer_removed"
    /\ IF loc[p].err # NoErr
       THEN ReturnPing(p, loc[p].err)
       ELSE CallDHT(p, "Update", loc[p].from, "handlePing_retried")
    /\ UNCHANGED <<A, Buckets, mu, clock, ops, inserted>>

\* pruneMostRecentPeer returned (false, nil): the error of Update is dropped.
pruneMostRecentPeer_updated(p) ==
    /\ pc[p] = "pruneMostRecentPeer_updated"
    /\ ReturnPing(p, NoErr)
    /\ UNCHANGED <<A, Buckets, mu, clock, ops, inserted>>

handlePing_retried(p) ==
    /\ pc[p] = "handlePing_retried"
    /\ ReturnPing(p, loc[p].err)
    /\ UNCHANGED <<A, Buckets, mu, clock, ops, inserted>>

(***************************************************************************)
(* Node.queryCloserPeers(query).                                           *)
(***************************************************************************)
RECURSIVE SeqToSet(_)
SeqToSet(seq) == IF seq = <<>> THEN {} ELSE {Head(seq)} \cup SeqToSet(Tail(seq))

AllMultiAddresses(buckets) ==
    UNION {SeqToSet(BucketMultiAddresses(buckets[i])) : i \in BucketIndexes}

\* The multis of a set, ordered by XOR distance to the target, nearest first.
RECURSIVE SortByDistance(_, _)
SortByDistance(multis, target) ==
    IF multis = {} THEN <<>>
    ELSE LET m == CHOOSE x \in multis :
                    \A y \in multis :
                        Distance(Address(x), target) <= Distance(Address(y), target)
         IN  <<m>> \o SortByDistance(multis \ {m}, target)

\* DHT.FindMultiAddressNeighbors(target, alpha): the lists it may return.
FindMultiAddressNeighbors(target, alpha) ==
    {SortByDistance(ms, target) :
        ms \in {x \in SUBSET AllMultiAddresses(Buckets) : Cardinality(x) <= alpha}}

\* A handler that returns the neighbours unfiltered.
peersCloserToTarget_NoFilter(peers, target) == peers

\* The filter loop: keep the peers closer to the target than this node.
RECURSIVE peersCloserToTarget(_, _)
peersCloserToTarget(peers, target) ==
    IF peers = <<>> THEN <<>>
    ELSE (IF Closer(Address(Head(peers)), A, target) THEN <<Head(peers)>> ELSE <<>>)
         \o peersCloserToTarget(Tail(peers), target)

queryCloserPeers(p) ==
    /\ pc[p] = "queryCloserPeers"
    /\ CanRLock(p)
    /\ \/ /\ loc[p].query = A
          /\ loc' = [loc EXCEPT ![p].resp = <<>>, ![p].uerr = ErrDHTAddress]
          /\ Goto(p, "queryCloserPeers_done")
       \/ \E peers \in FindMultiAddressNeighbors(loc[p].query, Alpha) :
             IF AddressErr(loc[p].from)
             THEN /\ loc' = [loc EXCEPT
                         ![p].resp = peersCloserToTarget(peers, loc[p].query),
                         ![p].uerr = ErrMultiAddress]
                  /\ Goto(p, "queryCloserPeers_done")
             ELSE /\ loc' = [loc EXCEPT
                         ![p].resp = peersCloserToTarget(peers, loc[p].query),
                         ![p].notified = TRUE,
                         ![p].hret = "queryCloserPeers_done"]
                  /\ Goto(p, "updatePeer")
    /\ UNCHANGED <<A, Buckets, mu, clock, ops, inserted>>

\* A handler that passes on whatever list the work returned.
QueryCloserPeersResult_KeepsList(p) == [multis |-> loc[p].resp, err |-> loc[p].uerr]

\* What Node.QueryCloserPeers returns for the work that has ended: do.Err(err)
\* carries no value, so the handler returns an empty list with the error;
\* do.Ok(peers) carries the list.
QueryCloserPeersResult(p) ==
    IF loc[p].uerr # NoErr
    THEN [multis |-> <<>>, err |-> loc[p].uerr]
    ELSE [multis |-> loc[p].resp, err |-> NoErr]

(***************************************************************************)
(* Node.queryCloserPeersOnFrontier(query, stream).                         *)
(***************************************************************************)
MaxReply == 2

\* The MultiAddresses a remote peer may name in its reply: this node's own,
\* and those of three peers of the farthest bucket, one of them roaming.
CandidateMultis == {m \in Multis : Address(m) \in OwnerAddrs \cup (4 .. 6)}

\* What rpc.QueryCloserPeersFromTarget may return: any list, with repeats.
FrontierReplies ==
    UNION {[1 .. n -> CandidateMultis] : n \in 0 .. MaxReply}

\* A reply as Node.queryCloserPeers of the peer would filter it.
HonestReply(reply, peer, target) ==
    \A i \in 1 .. Len(reply) : Closer(Address(reply[i]), Address(peer), target)

Addrs(multis) == {Address(multis[i]) : i \in 1 .. Len(multis)}

\* A first loop that lets every peer of the table through.
CloserToTarget_Always(p, peer) == TRUE

\* identity.Closer(peer.Address(), node.Address(), target)
CloserToTarget(p, peer) == Closer(Address(peer), A, loc[p].query)

\* A closure test that forgets the peers seen but not yet closed.
Seen_BlackOnly(p, candidate) == Address(candidate) \in loc[p].black

\* The candidate is in the closure: closed (black) or seen (white).
Seen(p, candidate) == Address(candidate) \in loc[p].black \cup loc[p].white

\* peers := node.DHT.MultiAddresses()
queryCloserPeersOnFrontier(p) ==
    /\ pc[p] = "queryCloserPeersOnFrontier"
    /\ loc' = [loc EXCEPT ![p].ret = "frontier_filter"]
    /\ Goto(p, "MultiAddresses")
    /\ UNCHANGED <<A, Buckets, mu, clock, ops, inserted>>

\* The first loop, one peer of the table per step: a peer closer to the
\* target than this node is sent on the stream and joins the frontier; a
\* failed send ends the handler.  After the last peer, this node is closed
\* and the frontier is marked as seen.
frontier_filter(p) ==
    /\ pc[p] = "frontier_filter"
    /\ IF loc[p].scan < Len(loc[p].multis)
       THEN LET peer == loc[p].multis[loc[p].scan + 1]
            IN  IF CloserToTarget(p, peer)
                THEN \/ /\ loc' = [loc EXCEPT ![p].scan = @ + 1,
                                             ![p].stream = Append(@, peer),
                                             ![p].frontier = Append(@, peer)]
                        /\ UNCHANGED pc
                     \/ /\ loc' = [loc EXCEPT ![p].uerr = ErrStream]
                        /\ Goto(p, "frontier_done")
                ELSE /\ loc' = [loc EXCEPT ![p].scan = @ + 1]
                     /\ UNCHANGED pc
       ELSE /\ loc' = [loc EXCEPT ![p].black = {A},
                                  ![p].white = Addrs(loc[p].frontier)]
            /\ Goto(p, "frontier_loop")
    /\ UNCHANGED <<A, Buckets, mu, clock, ops, inserted>>

\* A search that pops the last peer off the frontier: a stack, depth first.
frontier_loop_Lifo(p) ==
    /\ pc[p] = "frontier_loop"
    /\ IF loc[p].frontier = <<>>
       THEN /\ Goto(p, "frontier_finish")
            /\ UNCHANGED loc
       ELSE LET peer == loc[p].frontier[Len(loc[p].frontier)]
                rest == SubSeq(loc[p].frontier, 1, Len(loc[p].frontier) - 1)
            IN  IF Address(peer) = loc[p].query
                THEN /\ loc' = [loc EXCEPT ![p].frontier = rest,
                                           ![p].black = @ \cup {Address(peer)},
                                           ![p].popped = Append(@, peer)]
                     /\ UNCHANGED pc
                ELSE /\ loc' = [loc EXCEPT ![p].frontier = rest,
                                           ![p].black = @ \cup {Address(peer)},
                                           ![p].popped = Append(@, peer),
                                           ![p].expanding = peer,
                                           ![p].expanded = Append(@, Address(peer))]
                     /\ Goto(p, "frontier_query")
    /\ UNCHANGED <<A, Buckets, mu, clock, ops, inserted>>

\* Pop the first peer off the frontier and close it; the target itself is
\* not queried.  An empty frontier ends the search.
frontier_loop(p) ==
    /\ pc[p] = "frontier_loop"
    /\ IF loc[p].frontier = <<>>
       THEN /\ Goto(p, "frontier_finish")
            /\ UNCHANGED loc
       ELSE LET peer == Head(loc[p].frontier)
            IN  IF Address(peer) = loc[p].query
                THEN /\ loc' = [loc EXCEPT ![p].frontier = Tail(@),
                                           ![p].black = @ \cup {Address(peer)},
                                           ![p].popped = Append(@, peer)]
                     /\ UNCHANGED pc
                ELSE /\ loc' = [loc EXCEPT ![p].frontier = Tail(@),
                                           ![p].black = @ \cup {Address(peer)},
                                           ![p].popped = Append(@, peer),
                                           ![p].expanding = peer,
                                           ![p].expanded = Append(@, Address(peer))]
                     /\ Goto(p, "frontier_query")
    /\ UNCHANGED <<A, Buckets, mu, clock, ops, inserted>>

\* A search that gives up when one peer cannot be queried.
frontier_query_AbortsOnError(p) ==
    /\ pc[p] = "frontier_query"
    /\ \/ /\ loc' = [loc EXCEPT ![p].failed = @ \cup {Address(loc[p].expanding)},
                                ![p].expanding = NoMulti,
                                ![p].uerr = ErrTransport]
          /\ Goto(p, "frontier_done")
       \/ \E reply \in FrontierReplies :
             /\ loc' = [loc EXCEPT
                          ![p].candidates = reply,
                          ![p].first = IF Len(loc[p].expanded) = 1 THEN Addrs(reply) ELSE @,
                          ![p].honest = @ /\ HonestReply(reply, loc[p].expanding,
                                                        loc[p].query)]
             /\ Goto(p, "frontier_candidates")
    /\ UNCHANGED <<A, Buckets, mu, clock, ops, inserted>>

\* rpc.QueryCloserPeersFromTarget(peer, ...) returns an error, which is
\* logged, or the candidates.
frontier_query(p) ==
    /\ pc[p] = "frontier_query"
    /\ \/ /\ loc' = [loc EXCEPT ![p].failed = @ \cup {Address(loc[p].expanding)},
                                ![p].expanding = NoMulti]
          /\ Goto(p, "frontier_loop")
       \/ \E reply \in FrontierReplies :
             /\ loc' = [loc EXCEPT
                          ![p].candidates = reply,
                          ![p].first = IF Len(loc[p].expanded) = 1 THEN Addrs(reply) ELSE @,
                          ![p].honest = @ /\ HonestReply(reply, loc[p].expanding,
                                                        loc[p].query)]
             /\ Goto(p, "frontier_candidates")
    /\ UNCHANGED <<A, Buckets, mu, clock, ops, inserted>>

\* The loop over the candidates, one per step: a candidate already closed
\* or seen is passed over, any other is sent on the stream, joins the
\* frontier and is marked as seen; a failed send ends the handler.
frontier_candidates(p) ==
    /\ pc[p] = "frontier_candidates"
    /\ IF loc[p].candidates = <<>>
       THEN /\ loc' = [loc EXCEPT ![p].expanding = NoMulti]
            /\ Goto(p, "frontier_loop")
       ELSE LET candidate == Head(loc[p].candidates)
            IN  IF Seen(p, candidate)
                THEN /\ loc' = [loc EXCEPT ![p].candidates = Tail(@)]
                     /\ UNCHANGED pc
                ELSE \/ /\ loc' = [loc EXCEPT
                                     ![p].candidates = Tail(@),
                                     ![p].stream = Append(@, candidate),
                                     ![p].frontier = Append(@, candidate),
                                     ![p].white = @ \cup {Address(candidate)}]
                        /\ UNCHANGED pc
                     \/ /\ loc' = [loc EXCEPT ![p].uerr = ErrStream]
                        /\ Goto(p, "frontier_done")
    /\ UNCHANGED <<A, Buckets, mu, clock, ops, inserted>>

\* An end of the search that updates the caller without the callback.
frontier_finish_NoCallback(p) ==
    /\ pc[p] = "frontier_finish"
    /\ IF AddressErr(loc[p].from)
       THEN /\ loc' = [loc EXCEPT ![p].uerr = ErrMultiAddress]
            /\ Goto(p, "frontier_done")
       ELSE /\ loc' = [loc EXCEPT ![p].hret = "frontier_done"]
            /\ Goto(p, "updatePeer")
    /\ UNCHANGED <<A, Buckets, mu, clock, ops, inserted>>

\* After the search: decode the caller, notify the delegate, updatePeer.
frontier_finish(p) ==
    /\ pc[p] = "frontier_finish"
    /\ IF AddressErr(loc[p].from)
       THEN /\ loc' = [loc EXCEPT ![p].uerr = ErrMultiAddress]
            /\ Goto(p, "frontier_done")
       ELSE /\ loc' = [loc EXCEPT ![p].notified = TRUE, ![p].hret = "frontier_done"]
            /\ Goto(p, "updatePeer")
    /\ UNCHANGED <<A, Buckets, mu, clock, ops, inserted>>

FrontierStep(p) ==
    \/ queryCloserPeersOnFrontier(p) \/ frontier_filter(p) \/ frontier_loop(p)
    \/ frontier_query(p) \/ frontier_candidates(p) \/ frontier_finish(p)

(***************************************************************************)
(* Node.Bootstrap() with Options.Concurrent = false, and                   *)
(* Node.bootstrapUsingMultiAddress.                                        *)
(***************************************************************************)
\* First loop: add every bootstrap MultiAddress to the DHT, errors logged.
Bootstrap(p) ==
    /\ pc[p] = "Bootstrap"
    /\ IF loc[p].boot < Len(BootstrapMultiAddresses)
       THEN /\ loc' = [loc EXCEPT ![p].boot = @ + 1,
                                  ![p].arg = BootstrapMultiAddresses[loc[p].boot + 1],
                                  ![p].ret = "Bootstrap"]
            /\ Goto(p, "Update")
       ELSE /\ loc' = [loc EXCEPT ![p].boot = 0]
            /\ Goto(p, "Bootstrap_search")
    /\ UNCHANGED <<A, Buckets, mu, clock, ops, inserted>>

\* Second loop: search every bootstrap node for this node, one at a time.
\* The error bootstrapUsingMultiAddress returned is not looked at.
Bootstrap_search(p) ==
    /\ pc[p] = "Bootstrap_search"
    /\ IF loc[p].boot < Len(BootstrapMultiAddresses)
       THEN /\ loc' = [loc EXCEPT ![p].boot = @ + 1, ![p].attempt = 0,
                                  ![p].peers = <<>>, ![p].peer = 0,
                                  ![p].herr = NoErr,
                                  ![p].timeout = 0, ![p].tries = 0]
            /\ Goto(p, "bootstrapUsingMultiAddress")
       ELSE /\ Goto(p, "Bootstrap_done")
            /\ loc' = [loc EXCEPT ![p].herr = NoErr, ![p].attempt = 0,
                                  ![p].peers = <<>>, ![p].peer = 0,
                                  ![p].timeout = 0, ![p].tries = 0]
    /\ UNCHANGED <<A, Buckets, mu, clock, ops, inserted>>

\* A retry loop without back-off: every attempt has the first deadline.
Deadline_NoBackoff(attempt) == Timeout

\* The deadline of the attempt: Options.Timeout plus attempt steps.
Deadline(attempt) == Timeout + attempt * TimeoutStep

\* The retry loop: one rpc.QueryCloserPeersOnFrontierFromTarget per step.
bootstrapUsingMultiAddress(p) ==
    /\ pc[p] = "bootstrapUsingMultiAddress"
    /\ IF loc[p].attempt < TimeoutRetries
       THEN \/ \E reply \in BootstrapReplies :
                  /\ loc' = [loc EXCEPT ![p].peers = reply, ![p].herr = NoErr,
                                        ![p].timeout = Deadline(loc[p].attempt),
                                        ![p].tries = @ + 1]
                  /\ Goto(p, "bootstrap_peers")
            \/ IF loc[p].attempt = TimeoutRetries - 1
               THEN /\ loc' = [loc EXCEPT ![p].herr = ErrTransport,
                                          ![p].timeout = Deadline(loc[p].attempt),
                                          ![p].tries = @ + 1,
                                          ![p].failures = @ + 1]
                    /\ Goto(p, "Bootstrap_search")
               ELSE /\ loc' = [loc EXCEPT ![p].attempt = @ + 1,
                                          ![p].herr = ErrTransport,
                                          ![p].timeout = Deadline(loc[p].attempt),
                                          ![p].tries = @ + 1]
                    /\ UNCHANGED pc
       ELSE /\ Goto(p, "bootstrap_peers")
            /\ UNCHANGED loc
    /\ UNCHANGED <<A, Buckets, mu, clock, ops, inserted>>

\* Add the peers returned to the DHT, skipping the node itself.
bootstrap_peers(p) ==
    /\ pc[p] = "bootstrap_peers"
    /\ IF loc[p].peer < Len(loc[p].peers)
       THEN IF Address(loc[p].peers[loc[p].peer + 1]) = A
            THEN /\ loc' = [loc EXCEPT ![p].peer = @ + 1]
                 /\ UNCHANGED pc
            ELSE /\ loc' = [loc EXCEPT ![p].peer = @ + 1,
                                       ![p].arg = loc[p].peers[loc[p].peer + 1],
                                       ![p].ret = "bootstrap_peers"]
                 /\ Goto(p, "Update")
       ELSE /\ loc' = [loc EXCEPT ![p].herr = NoErr]
            /\ Goto(p, "Bootstrap_search")
    /\ UNCHANGED <<A, Buckets, mu, clock, ops, inserted>>

(***************************************************************************)
(* The RPCs served and the start of the node.                              *)
(***************************************************************************)
CallPing(p) ==
    /\ pc[p] = "idle"
    /\ ops < MaxOps
    /\ \E from \in Multis \cup {BadMulti} :
          loc' = [loc EXCEPT ![p] = [InitLoc EXCEPT !.from = from]]
    /\ Goto(p, "ping")
    /\ ops' = ops + 1
    /\ UNCHANGED <<A, Buckets, mu, clock, inserted>>

\* The callers that query: the node itself, a peer the table may hold under
\* either of its MultiAddresses, a peer for which a full bucket has no room,
\* and a caller whose MultiAddress does not decode.
QueryCallers ==
    {BadMulti} \cup {m \in Multis : Address(m) \in OwnerAddrs \cup RoamingAddrs
                                                   \cup {4 + MaxBucketSize}}

CallQueryCloserPeers(p) ==
    /\ pc[p] = "idle"
    /\ ops < MaxOps
    /\ \E from \in QueryCallers, target \in PeerAddrs :
          loc' = [loc EXCEPT ![p] = [InitLoc EXCEPT !.from = from, !.query = target]]
    /\ Goto(p, "queryCloserPeers")
    /\ ops' = ops + 1
    /\ UNCHANGED <<A, Buckets, mu, clock, inserted>>

\* What Bootstrap hands to its caller: the function has no result.
BootstrapResult(p) == NoErr

\* The node bootstraps when it starts, with an empty table.
CallBootstrap(p) ==
    /\ pc[p] = "idle"
    /\ ops < MaxOps
    /\ clock = 0
    /\ loc' = [loc EXCEPT ![p] = InitLoc]
    /\ Goto(p, "Bootstrap")
    /\ ops' = ops + 1
    /\ UNCHANGED <<A, Buckets, mu, clock, inserted>>

CallQueryCloserPeersOnFrontier(p) ==
    /\ pc[p] = "idle"
    /\ ops < MaxOps
    /\ \E from \in QueryCallers, target \in PeerAddrs :
          loc' = [loc EXCEPT ![p] = [InitLoc EXCEPT !.from = from, !.query = target]]
    /\ Goto(p, "queryCloserPeersOnFrontier")
    /\ ops' = ops + 1
    /\ UNCHANGED <<A, Buckets, mu, clock, inserted>>

\* Package x: a Ping is served.
CallHandlePing(p) ==
    /\ pc[p] = "idle"
    /\ ops < MaxOps
    /\ \E from \in Multis \cup {BadMulti} :
          loc' = [loc EXCEPT ![p] = [InitLoc EXCEPT !.from = from]]
    /\ Goto(p, "handlePing")
    /\ ops' = ops + 1
    /\ UNCHANGED <<A, Buckets, mu, clock, inserted>>

\* The handler returns its results to the transport.
HandlerReturn(p) ==
    /\ pc[p] \in {"ping_done", "queryCloserPeers_done", "Bootstrap_done",
                  "handlePing_done", "frontier_done", "search_done"}
    /\ loc' = [loc EXCEPT ![p] = InitLoc]
    /\ Goto(p, "idle")
    /\ UNCHANGED <<A, Buckets, mu, clock, ops, inserted>>

NodeStep(p) ==
    \/ updatePeer(p) \/ updatePeer_updated(p) \/ updatePeer_retried(p)
    \/ Prune(p) \/ Prune_length(p) \/ Prune_oldest(p) \/ Prune_ping(p)
    \/ Prune_removed(p) \/ Prune_updated(p)
    \/ ping(p) \/ queryCloserPeers(p)
    \/ Bootstrap(p) \/ Bootstrap_search(p) \/ bootstrapUsingMultiAddress(p)
    \/ bootstrap_peers(p)
    \/ HandlerReturn(p)

WriteStep(p) ==
    \/ Update(p) \/ update(p) \/ update_write(p) \/ Update_ret(p)
    \/ Remove(p) \/ remove(p) \/ remove_write(p) \/ Remove_ret(p)

ReadStep(p) ==
    \/ DHTFindMultiAddress(p) \/ findMultiAddress(p) \/ FindMultiAddress_ret(p)
    \/ DHTMultiAddresses(p) \/ multiAddresses(p) \/ multiAddresses_copy(p)
    \/ MultiAddresses_ret(p)

Next ==
    \E p \in Procs :
        \/ CallUpdate(p) \/ CallRemove(p) \/ CallFindMultiAddress(p)
        \/ CallMultiAddresses(p)
        \/ WriteStep(p)
        \/ ReadStep(p)

Spec == Init /\ [][Next]_vars

NextNode ==
    \E p \in Procs :
        \/ CallPing(p) \/ CallQueryCloserPeers(p) \/ CallBootstrap(p)
        \/ CallRemove(p)
        \/ NodeStep(p)
        \/ WriteStep(p)

(***************************************************************************)
(* The node serving RPCs.  It starts from a table that MaxBucketSize calls *)
(* of DHT.Update (or as many lookups) leave behind: the empty table, or    *)
(* the farthest bucket filled with the first peers, oldest first.          *)
(***************************************************************************)
FilledBucket == [i \in 1 .. MaxBucketSize |-> Entry(MultiAddress(3 + i, 1), i)]

\* The bucket of the peers that differ from the owner in the same bit as 4.
FilledIndex == IDLengthInBits - SamePrefixLength(CHOOSE a \in OwnerAddrs : TRUE, 4) - 1

InitNode ==
    /\ A \in OwnerAddrs
    /\ \/ /\ Buckets = [i \in BucketIndexes |-> <<>>]
          /\ clock = 0
          /\ inserted = {}
       \/ /\ Buckets = [i \in BucketIndexes |->
                            IF i = FilledIndex THEN FilledBucket ELSE <<>>]
          /\ clock = MaxBucketSize
          /\ inserted = {MultiAddress(3 + i, 1) : i \in 1 .. MaxBucketSize}
    /\ mu = [w |-> NoProc, r |-> {}]
    /\ ops = MaxBucketSize
    /\ pc = [p \in Procs |-> "idle"]
    /\ loc = [p \in Procs |-> InitLoc]

SpecNode == InitNode /\ [][NextNode]_vars

(***************************************************************************)
(* The node serving one Ping at a time: no other handler is running.       *)
(***************************************************************************)
Solo == CHOOSE p \in Procs : TRUE

PeerStep(p) ==
    \/ updatePeer(p) \/ updatePeer_updated(p) \/ updatePeer_retried(p)
    \/ Prune(p) \/ Prune_length(p) \/ Prune_oldest(p) \/ Prune_ping(p)
    \/ Prune_removed(p) \/ Prune_updated(p)

HandlePingStep(p) ==
    \/ handlePing(p) \/ handlePing_updated(p) \/ handlePing_retried(p)
    \/ pruneMostRecentPeer(p) \/ pruneMostRecentPeer_oldest(p)
    \/ pruneMostRecentPeer_ping(p) \/ pruneMostRecentPeer_removed(p)
    \/ pruneMostRecentPeer_updated(p)

NextSolo ==
    \/ CallPing(Solo) \/ ping(Solo) \/ HandlerReturn(Solo)
    \/ PeerStep(Solo)
    \/ CallHandlePing(Solo) \/ HandlePingStep(Solo)
    \/ WriteStep(Solo)

SpecSolo == InitNode /\ [][NextSolo]_vars

(***************************************************************************)
(* The node serving one QueryCloserPeersOnFrontier.  The table holds the   *)
(* first peers, as many as earlier calls of DHT.Update have added.         *)
(***************************************************************************)
SnapshotStep(p) ==
    \/ DHTMultiAddresses(p) \/ multiAddresses(p) \/ multiAddresses_copy(p)
    \/ MultiAddresses_ret(p)

NextFrontier ==
    \/ CallQueryCloserPeersOnFrontier(Solo) \/ FrontierStep(Solo)
    \/ SnapshotStep(Solo)
    \/ PeerStep(Solo)
    \/ WriteStep(Solo)
    \/ HandlerReturn(Solo)

InitFrontier ==
    /\ A \in OwnerAddrs
    /\ \E n \in 0 .. MaxBucketSize :
          /\ Buckets = [i \in BucketIndexes |->
                            IF i = FilledIndex THEN SubSeq(FilledBucket, 1, n) ELSE <<>>]
          /\ clock = n
          /\ inserted = {MultiAddress(3 + i, 1) : i \in 1 .. n}
    /\ mu = [w |-> NoProc, r |-> {}]
    /\ ops = MaxOps - 1
    /\ pc = [p \in Procs |-> "idle"]
    /\ loc = [p \in Procs |-> InitLoc]

SpecFrontier == InitFrontier /\ [][NextFrontier]_vars

\* Every call the handler makes returns: the goroutine keeps taking steps.
SpecFrontierLive == SpecFrontier /\ WF_vars(NextFrontier)

(***************************************************************************)
(* The RPC handlers Node.Ping of both packages.  The handler checks        *)
(* ctx.Err(), starts a goroutine (the worker) that does the work and hands *)
(* its result over on the channel wait, and selects between wait and       *)
(* ctx.Done().  pc[p] is the position of the worker; the position of the   *)
(* handler, the context and the channel are loc[p].handler, .ctx, .wait.   *)
(***************************************************************************)
\* wait := make(chan error): the channel of x.Node.Ping has no buffer.
WaitCapacity == 0

\* do.Process: the channel it returns holds the result of the function.
ProcessCapacity == 1

Capacity(p) == IF loc[p].kind = "x" THEN WaitCapacity ELSE ProcessCapacity

\* The labels at which the worker has its result and sends it on wait.
SendLabels == {"ping_done", "handlePing_done"}

\* The send of the worker can go through: the buffer has room, or the
\* handler is in its select to receive.
CanSend(p) == Len(loc[p].wait) < Capacity(p) \/ loc[p].handler = "select"

\* The transport calls Ping of package swarm or of package x.
ServePing(p) ==
    /\ pc[p] = "idle"
    /\ ops < MaxOps
    /\ \E from \in Multis \cup {BadMulti}, kind \in {"swarm", "x"}, ctx \in {"live", "done"} :
          loc' = [loc EXCEPT ![p] = [InitLoc EXCEPT !.from = from, !.kind = kind,
                                                    !.ctx = ctx, !.handler = "entry"]]
    /\ Goto(p, "unspawned")
    /\ ops' = ops + 1
    /\ UNCHANGED <<A, Buckets, mu, clock, inserted>>

\* if err := ctx.Err(); err != nil { return nil, err }, else the worker is
\* started and the handler goes to its select.
Ping_entry(p) ==
    /\ loc[p].handler = "entry"
    /\ IF loc[p].ctx = "done"
       THEN /\ loc' = [loc EXCEPT ![p].handler = "returned", ![p].result = ErrCanceled]
            /\ UNCHANGED pc
       ELSE /\ loc' = [loc EXCEPT ![p].handler = "select"]
            /\ Goto(p, IF loc[p].kind = "x" THEN "handlePing" ELSE "ping")
    /\ UNCHANGED <<A, Buckets, mu, clock, ops, inserted>>

\* The transport cancels the context of a call that has not returned.
Cancel(p) ==
    /\ loc[p].handler \in {"entry", "select"}
    /\ loc[p].ctx = "live"
    /\ loc' = [loc EXCEPT ![p].ctx = "done"]
    /\ UNCHANGED <<A, Buckets, mu, clock, ops, inserted, pc>>

\* wait <- result.  With room in the buffer the value is stored; without,
\* the send is a rendezvous with the handler's case <-wait, which returns
\* the value.  The worker then ends (defer close(wait)).
wait_send(p) ==
    /\ pc[p] \in SendLabels
    /\ \/ /\ Len(loc[p].wait) < Capacity(p)
          /\ loc' = [loc EXCEPT ![p].wait = Append(@, loc[p].uerr)]
       \/ /\ Capacity(p) = 0
          /\ loc[p].handler = "select"
          /\ loc' = [loc EXCEPT ![p].handler = "returned", ![p].result = loc[p].uerr]
    /\ Goto(p, "worker_end")
    /\ UNCHANGED <<A, Buckets, mu, clock, ops, inserted>>

\* case val := <-wait, on a buffered value: the handler returns it.
select_wait(p) ==
    /\ loc[p].handler = "select"
    /\ loc[p].wait # <<>>
    /\ loc' = [loc EXCEPT ![p].handler = "returned", ![p].result = Head(loc[p].wait),
                          ![p].wait = Tail(@)]
    /\ UNCHANGED <<A, Buckets, mu, clock, ops, inserted, pc>>

\* case <-ctx.Done(): the handler returns ctx.Err().
select_done(p) ==
    /\ loc[p].handler = "select"
    /\ loc[p].ctx = "done"
    /\ loc' = [loc EXCEPT ![p].handler = "returned", ![p].result = ErrCanceled]
    /\ UNCHANGED <<A, Buckets, mu, clock, ops, inserted, pc>>

\* The handler has returned and no worker of the call is left.
CallOver(p) ==
    /\ loc[p].handler = "returned"
    /\ pc[p] \in {"unspawned", "worker_end"}
    /\ loc' = [loc EXCEPT ![p] = InitLoc]
    /\ Goto(p, "idle")
    /\ UNCHANGED <<A, Buckets, mu, clock, ops, inserted>>

NextCancel ==
    \/ ServePing(Solo) \/ Ping_entry(Solo) \/ Cancel(Solo)
    \/ ping(Solo) \/ PeerStep(Solo) \/ HandlePingStep(Solo) \/ WriteStep(Solo)
    \/ wait_send(Solo) \/ select_wait(Solo) \/ select_done(Solo)
    \/ CallOver(Solo)

SpecCancel == InitNode /\ [][NextCancel]_vars

(***************************************************************************)
(* Package x: Node.handleSendOrderFragment, the search for the target of   *)
(* an order fragment.  The goroutine p runs the dispatching loop; the      *)
(* goroutines it starts in a round are loc[p].workers.  The open list and  *)
(* the closed set are shared: workers append to open under openMu, the     *)
(* dispatching loop pops from open and writes closed without it.  An       *)
(* assignment to open reads the slice and writes it back in two steps.     *)
(***************************************************************************)
alpha == 3

MaxExpansions == 4

\* The senders of a fragment: one whose MultiAddress does not parse, one
\* outside the table and one the table may hold.
SearchSenders == {BadMulti, MultiAddress(2, 1), MultiAddress(4, 1)}

\* The targets: the node itself, a peer nobody knows, a peer the table may
\* hold, and a peer only other peers know.
SearchTargets == OwnerAddrs \cup {3, 5, 4 + MaxBucketSize}

\* The peers a remote peer may name in the reply to RPCPeers; every one
\* has an address that parses.
SearchPeers ==
    {MultiAddress(a, 1) : a \in OwnerAddrs \cup {2, 4, 4 + MaxBucketSize}}

SearchReplies == UNION {[1 .. n -> SearchPeers] : n \in 0 .. MaxReply}

Workers == 1 .. alpha

NoWorker == [st |-> "none", multi |-> NoMulti, openNext |-> <<>>, openRead |-> <<>>]

\* The worker w of the round is at the step st.
WorkerAt(p, w, st) == w \in DOMAIN loc[p].workers /\ loc[p].workers[w].st = st

\* sort.Slice(open, ...) with identity.Closer(left, right, target).
RECURSIVE InsertByDistance(_, _, _)
InsertByDistance(m, multis, target) ==
    IF multis = <<>> THEN <<m>>
    ELSE IF Distance(Address(m), target) < Distance(Address(Head(multis)), target)
         THEN <<m>> \o multis
         ELSE <<Head(multis)>> \o InsertByDistance(m, Tail(multis), target)

RECURSIVE SortOpen(_, _)
SortOpen(multis, target) ==
    IF multis = <<>> THEN <<>>
    ELSE InsertByDistance(Head(multis), SortOpen(Tail(multis), target), target)

\* The peers of the table that are not closed, in table order.
RECURSIVE NotClosed(_, _)
NotClosed(multis, closed) ==
    IF multis = <<>> THEN <<>>
    ELSE (IF Address(Head(multis)) \in closed THEN <<>> ELSE <<Head(multis)>>)
         \o NotClosed(Tail(multis), closed)

\* The place of the first peer of the list with the address, 0 if none.
FirstAt(multis, a) ==
    IF a \in Addrs(multis)
    THEN CHOOSE i \in 1 .. Len(multis) :
            /\ Address(multis[i]) = a
            /\ \A j \in 1 .. (i - 1) : Address(multis[j]) # a
    ELSE 0

\* The transport calls SendOrderFragment.
CallSendOrderFragment(p) ==
    /\ pc[p] = "idle"
    /\ ops < MaxOps
    /\ \E from \in SearchSenders, to \in SearchTargets :
          loc' = [loc EXCEPT ![p] = [InitLoc EXCEPT !.from = from, !.to = to,
                                        !.workers = [w \in Workers |-> NoWorker]]]
    /\ Goto(p, "handleSendOrderFragment")
    /\ ops' = ops + 1
    /\ UNCHANGED <<A, Buckets, mu, clock, inserted>>

\* A fragment for this node is delivered; else the closed set starts with
\* the node and the sender, and the table is read.
handleSendOrderFragment(p) ==
    /\ pc[p] = "handleSendOrderFragment"
    /\ IF loc[p].to = A
       THEN /\ loc' = [loc EXCEPT ![p].notified = TRUE]
            /\ Goto(p, "search_done")
       ELSE IF AddressErr(loc[p].from)
       THEN /\ loc' = [loc EXCEPT ![p].uerr = ErrMultiAddress]
            /\ Goto(p, "search_done")
       ELSE /\ loc' = [loc EXCEPT ![p].closed = {A, Address(loc[p].from)},
                                  ![p].ret = "search_open"]
            /\ Goto(p, "MultiAddresses")
    /\ UNCHANGED <<A, Buckets, mu, clock, ops, inserted>>

\* The open list: the peers of the table that are not closed, sorted.  An
\* empty list is an error; a list headed by the target gets the fragment.
search_open(p) ==
    LET open == SortOpen(NotClosed(loc[p].multis, loc[p].closed), loc[p].to)
    IN  /\ pc[p] = "search_open"
        /\ IF open = <<>>
           THEN /\ loc' = [loc EXCEPT ![p].uerr = ErrEmptyDHT]
                /\ Goto(p, "search_done")
           ELSE IF Address(Head(open)) = loc[p].to
           THEN /\ \E err \in {NoErr, ErrTransport} :
                      loc' = [loc EXCEPT ![p].open = open, ![p].uerr = err]
                /\ Goto(p, "search_done")
           ELSE /\ loc' = [loc EXCEPT ![p].open = open]
                /\ Goto(p, "search_round")
        /\ UNCHANGED <<A, Buckets, mu, clock, ops, inserted>>

\* for len(open) > 0: the number of goroutines of the round.
search_round(p) ==
    /\ pc[p] = "search_round"
    /\ IF loc[p].open = <<>>
       THEN /\ Goto(p, "search_end")
            /\ UNCHANGED loc
       ELSE /\ loc' = [loc EXCEPT
                   ![p].asyncRoutines = IF Len(loc[p].open) > 3 THEN alpha
                                        ELSE Len(loc[p].open),
                   ![p].i = 0, ![p].reported = {}]
            /\ Goto(p, "search_pop")
    /\ UNCHANGED <<A, Buckets, mu, clock, ops, inserted>>

\* multi := open[0], and the read of open for open = open[1:].
search_pop(p) ==
    /\ pc[p] = "search_pop"
    /\ IF loc[p].i < loc[p].asyncRoutines /\ loc[p].open # <<>>
       THEN /\ Len(loc[p].expanded) + Cardinality({w \in Workers :
                      loc[p].workers[w].st = "rpc"}) < MaxExpansions
            /\ loc' = [loc EXCEPT ![p].multi = Head(loc[p].open),
                                  ![p].openRead = loc[p].open]
            /\ Goto(p, "search_pop_write")
       ELSE /\ Goto(p, "search_wait")
            /\ UNCHANGED loc
    /\ UNCHANGED <<A, Buckets, mu, clock, ops, inserted>>

\* open = open[1:], closed[address] = true, go func() {...}(): a peer that
\* a worker appended since the read is lost.
search_pop_write(p) ==
    /\ pc[p] = "search_pop_write"
    /\ loc' = [loc EXCEPT
            ![p].open = Tail(loc[p].openRead),
            ![p].closed = @ \cup {Address(loc[p].multi)},
            ![p].workers[loc[p].i + 1] = [NoWorker EXCEPT !.st = "rpc",
                                                          !.multi = loc[p].multi],
            ![p].i = @ + 1,
            ![p].multi = NoMulti, ![p].openRead = <<>>]
    /\ Goto(p, "search_pop")
    /\ UNCHANGED <<A, Buckets, mu, clock, ops, inserted>>

\* wg.Wait(), then the end of the search or the sort for the next round.
search_wait(p) ==
    /\ pc[p] = "search_wait"
    /\ loc[p].i = loc[p].asyncRoutines
    /\ \A w \in Workers : loc[p].workers[w].st \in {"none", "done"}
    /\ IF loc[p].targetMulti # NoMulti
       THEN /\ loc' = [loc EXCEPT ![p].workers = [w \in Workers |-> NoWorker]]
            /\ Goto(p, "search_end")
       ELSE /\ loc' = [loc EXCEPT ![p].workers = [w \in Workers |-> NoWorker],
                                  ![p].open = SortOpen(@, loc[p].to)]
            /\ Goto(p, "search_round")
    /\ UNCHANGED <<A, Buckets, mu, clock, ops, inserted>>

\* After the loop: no target found, or the fragment is sent to it.
search_end(p) ==
    /\ pc[p] = "search_end"
    /\ IF loc[p].targetMulti = NoMulti
       THEN loc' = [loc EXCEPT ![p].uerr = ErrNotFound]
       ELSE \E err \in {NoErr, ErrTransport} : loc' = [loc EXCEPT ![p].uerr = err]
    /\ Goto(p, "search_done")
    /\ UNCHANGED <<A, Buckets, mu, clock, ops, inserted>>

\* The worker asks its peer for its peers: an error ends it; else it keeps
\* the peers named before the target and sets targetMulti if it is named.
worker_peers(p, w) ==
    /\ WorkerAt(p, w, "rpc")
    /\ \/ loc' = [loc EXCEPT ![p].workers[w].st = "done",
                              ![p].expanded = Append(@, Address(loc[p].workers[w].multi))]
       \/ \E peers \in SearchReplies :
             LET k == FirstAt(peers, loc[p].to)
             IN  loc' = [loc EXCEPT
                     ![p].expanded = Append(@, Address(loc[p].workers[w].multi)),
                     ![p].workers[w].st = "check",
                     ![p].workers[w].openNext =
                         IF k > 0 THEN SubSeq(peers, 1, k - 1) ELSE peers,
                     ![p].targetMulti =
                         IF k > 0 /\ @ = NoMulti THEN peers[k] ELSE @]
    /\ UNCHANGED <<A, Buckets, mu, clock, ops, inserted, pc>>

\* if targetMulti == nil, under targetMultiMu: merge, or end.
worker_check(p, w) ==
    /\ WorkerAt(p, w, "check")
    /\ loc' = [loc EXCEPT ![p].workers[w].st =
                   IF loc[p].targetMulti = NoMulti THEN "lock" ELSE "done"]
    /\ UNCHANGED <<A, Buckets, mu, clock, ops, inserted, pc>>

\* openMu.Lock()
worker_lock(p, w) ==
    /\ WorkerAt(p, w, "lock")
    /\ loc[p].openMu = 0
    /\ loc' = [loc EXCEPT ![p].openMu = w, ![p].workers[w].st = "merge"]
    /\ UNCHANGED <<A, Buckets, mu, clock, ops, inserted, pc>>

\* for _, next := range openNext: the test of closed and the read of open
\* for the append; after the last peer, openMu.Unlock().
worker_merge(p, w) ==
    /\ WorkerAt(p, w, "merge")
    /\ IF loc[p].workers[w].openNext = <<>>
       THEN loc' = [loc EXCEPT ![p].openMu = 0, ![p].workers[w].st = "done"]
       ELSE IF Address(Head(loc[p].workers[w].openNext)) \in loc[p].closed
       THEN loc' = [loc EXCEPT ![p].workers[w].openNext = Tail(@)]
       ELSE loc' = [loc EXCEPT ![p].workers[w].openRead = loc[p].open,
                               ![p].workers[w].st = "append"]
    /\ UNCHANGED <<A, Buckets, mu, clock, ops, inserted, pc>>

\* open = append(open, next): a pop since the read is undone.
worker_append(p, w) ==
    /\ WorkerAt(p, w, "append")
    /\ loc' = [loc EXCEPT
            ![p].open = Append(loc[p].workers[w].openRead,
                               Head(loc[p].workers[w].openNext)),
            ![p].reported = @ \cup {Address(Head(loc[p].workers[w].openNext))},
            ![p].workers[w].openNext = Tail(@),
            ![p].workers[w].openRead = <<>>,
            ![p].workers[w].st = "merge"]
    /\ UNCHANGED <<A, Buckets, mu, clock, ops, inserted, pc>>

SearchStep(p) ==
    \/ handleSendOrderFragment(p) \/ search_open(p) \/ search_round(p)
    \/ search_pop(p) \/ search_pop_write(p) \/ search_wait(p) \/ search_end(p)

WorkerStep(p, w) ==
    \/ worker_peers(p, w) \/ worker_check(p, w) \/ worker_lock(p, w)
    \/ worker_merge(p, w) \/ worker_append(p, w)

NextSearch ==
    \/ CallSendOrderFragment(Solo) \/ SearchStep(Solo)
    \/ \E w \in Workers : WorkerStep(Solo, w)
    \/ SnapshotStep(Solo)
    \/ HandlerReturn(Solo)

SpecSearch == InitFrontier /\ [][NextSearch]_vars


(***************************************************************************)
(* Properties of the routing table under concurrent callers (Spec).        *)
(***************************************************************************)
\* The step of goroutine p that performs the write of DHT.update.
UpdateWrites(p) == pc[p] = "update_write" /\ pc'[p] = "Update_ret"

\* What DHT.findMultiAddress(target) returns on the table given.
FindIn(buckets, target) ==
    IF findBucket(target) = NoBucket THEN NoMulti
    ELSE FindMultiAddress(buckets[findBucket(target)], target)

OtherBucketsUnchanged(b) ==
    \A i \in BucketIndexes : i # b => Buckets'[i] = Buckets[i]

\* C1: Update(m) with address(m) # A on a bucket holding fewer than
\* MaxBucketSize entries returns no error, and FindMultiAddress(address(m))
\* on the table it leaves returns m.
C1_UpdateThenFind ==
    [][\A p \in Procs :
          (/\ UpdateWrites(p)
           /\ Address(loc[p].arg) # A
           /\ Len(Buckets[findBucket(Address(loc[p].arg))]) < MaxBucketSize)
          => /\ loc'[p].err = NoErr
             /\ FindIn(Buckets', Address(loc[p].arg)) = loc[p].arg]_vars

\* An Update has appended its MultiAddress behind an older entry of a
\* bucket that had room, returned nil, and the table answers with it.
C1_Witness ==
    \E p \in Procs :
        LET bucket == Buckets[findBucket(Address(loc[p].arg))]
        IN  /\ pc[p] = "Update_ret"
            /\ loc[p].err = NoErr
            /\ loc[p].idx = 0
            /\ Len(bucket) >= 2
            /\ bucket[Len(bucket)].multi = loc[p].arg
            /\ FindIn(Buckets, Address(loc[p].arg)) = loc[p].arg

\* C2: Update(m2) for an address already stored (the bucket full or not)
\* leaves exactly one entry for the address, holding m2, with the timestamp
\* of the first insertion; every entry keeps its position and the bucket its
\* length.
C2_UpdateInPlace ==
    [][\A p \in Procs :
          LET target == Address(loc[p].arg)
              b == findBucket(target)
          IN  (UpdateWrites(p) /\ IndexOf(Buckets[b], target) > 0)
              => /\ Len(Buckets'[b]) = Len(Buckets[b])
                 /\ \A j \in 1 .. Len(Buckets[b]) :
                       /\ Address(Buckets'[b][j].multi) = Address(Buckets[b][j].multi)
                       /\ Buckets'[b][j].time = Buckets[b][j].time
                       /\ Address(Buckets[b][j].multi) # target
                          => Buckets'[b][j].multi = Buckets[b][j].multi
                 /\ Cardinality({j \in 1 .. Len(Buckets'[b]) :
                                    Address(Buckets'[b][j].multi) = target}) = 1
                 /\ \A j \in 1 .. Len(Buckets'[b]) :
                       Address(Buckets'[b][j].multi) = target
                       => Buckets'[b][j].multi = loc[p].arg
                 /\ OtherBucketsUnchanged(b)
                 /\ loc'[p].err = NoErr]_vars

\* The second Update of address 4 arrived when its bucket was full: the
\* entry is still the oldest of the bucket, with the first timestamp and a
\* younger entry behind it.
C2_Witness ==
    \E p \in Procs :
        LET bucket == Buckets[findBucket(4)]
        IN  /\ pc[p] = "Update_ret"
            /\ loc[p].arg = MultiAddress(4, 2)
            /\ Len(bucket) = MaxBucketSize
            /\ bucket[1].multi = MultiAddress(4, 2)
            /\ bucket[1].time < bucket[Len(bucket)].time

\* C3: Update(m) for an address not stored whose bucket holds MaxBucketSize
\* entries returns ErrFullBucket and leaves every bucket as it was.
C3_FullBucketRefused ==
    [][\A p \in Procs :
          LET target == Address(loc[p].arg)
              b == findBucket(target)
          IN  (/\ UpdateWrites(p)
               /\ IndexOf(Buckets[b], target) = 0
               /\ Len(Buckets[b]) = MaxBucketSize)
              => /\ loc'[p].err = ErrFullBucket
                 /\ Buckets' = Buckets]_vars

C3_Witness ==
    \E p \in Procs :
        /\ pc[p] = "Update_ret"
        /\ loc[p].err = ErrFullBucket
        /\ Len(Buckets[loc[p].bkt]) = MaxBucketSize
        /\ IndexOf(Buckets[loc[p].bkt], Address(loc[p].arg)) = 0

\* The entries of the bucket whose address is not the target, in order.
Without(bucket, target) ==
    LET Keep(e) == Address(e.multi) # target
    IN  SelectSeq(bucket, Keep)

\* The step in which goroutine p leaves DHT.remove, by the excision or by
\* one of its error returns.
RemoveReturns(p) == pc[p] \in {"remove", "remove_write"} /\ pc'[p] = "Remove_ret"

\* The table after the entry of the target is excised, every other entry
\* kept in its bucket, at its place in the order, with its timestamp.
Excised(buckets, target) ==
    [i \in BucketIndexes |->
        IF i = findBucket(target) THEN Without(buckets[i], target) ELSE buckets[i]]

\* C4 as stated: after Remove(m), FindMultiAddress(address(m)) returns
\* nothing, every other entry is kept with its MultiAddress, timestamp and
\* relative order, and Remove(m) of an address that is not stored changes
\* nothing and returns no error.
C4_RemoveAlwaysNil ==
    [][\A p \in Procs :
          LET target == Address(loc[p].arg)
          IN  (RemoveReturns(p) /\ ~AddressErr(loc[p].arg))
              => /\ FindIn(Buckets', target) = NoMulti
                 /\ Buckets' = Excised(Buckets, target)
                 /\ FindIn(Buckets, target) = NoMulti
                    => (Buckets' = Buckets /\ loc'[p].err = NoErr)]_vars

\* C4 (amended): after Remove(m), FindMultiAddress(address(m)) returns
\* nothing, every other entry is kept with its MultiAddress, timestamp and
\* relative order (later entries of the bucket move one slot earlier), and
\* Remove(m) of an address that is not stored changes nothing; it returns
\* no error unless address(m) is the owner's address A, for which it returns
\* ErrDHTAddress.
C4_RemoveFrame ==
    [][\A p \in Procs :
          LET target == Address(loc[p].arg)
          IN  (RemoveReturns(p) /\ ~AddressErr(loc[p].arg))
              => /\ FindIn(Buckets', target) = NoMulti
                 /\ Buckets' = Excised(Buckets, target)
                 /\ FindIn(Buckets, target) = NoMulti => Buckets' = Buckets
                 /\ loc'[p].err = IF target = A THEN ErrDHTAddress ELSE NoErr]_vars

\* A Remove took the oldest entry of a bucket and a younger entry moved to
\* the first slot.
C4_Witness ==
    \E p \in Procs :
        /\ pc[p] = "Remove_ret"
        /\ loc[p].idx = 1
        /\ Len(Buckets[loc[p].bkt]) >= 1
        /\ Buckets[loc[p].bkt][1].time > 1
        /\ FindIn(Buckets, Address(loc[p].arg)) = NoMulti

\* C7: no bucket holds two entries with the same address, under every
\* interleaving of concurrent Update and Remove calls.
C7_UniqueAddresses ==
    \A b \in BucketIndexes :
        \A i, j \in 1 .. Len(Buckets[b]) :
            Address(Buckets[b][i].multi) = Address(Buckets[b][j].multi) => i = j

\* Two goroutines update the same address at once: one is inside DHT.update,
\* the other waits for the lock, and the address is already stored.
C7_Witness ==
    \E p, q \in Procs :
        /\ p # q
        /\ pc[p] = "update_write"
        /\ pc[q] = "Update"
        /\ Address(loc[p].arg) = Address(loc[q].arg)
        /\ loc[p].idx > 0

\* All MultiAddresses of the table, bucket after bucket.
RECURSIVE Flatten(_, _)
Flatten(buckets, i) ==
    IF i = IDLengthInBits THEN <<>>
    ELSE BucketMultiAddresses(buckets[i]) \o Flatten(buckets, i + 1)

\* C9: every MultiAddress returned by FindMultiAddress, and every one in a
\* MultiAddresses snapshot, is a value some earlier Update was given; the
\* snapshot returned is the content of the table at the moment of return,
\* when no write is in progress.
C9_NoTornReads ==
    \A p \in Procs :
        /\ pc[p] = "FindMultiAddress_ret"
           => loc[p].found = NoMulti \/ loc[p].found \in inserted
        /\ pc[p] \in {"multiAddresses_copy", "MultiAddresses_ret"}
           => \A i \in 1 .. Len(loc[p].multis) : loc[p].multis[i] \in inserted
        /\ pc[p] = "MultiAddresses_ret"
           => /\ loc[p].multis = Flatten(Buckets, 0)
              /\ mu.w = NoProc

\* A snapshot of two buckets is complete while a writer waits for the lock
\* the reader holds.
C9_Witness ==
    \E p, q \in Procs :
        /\ pc[p] = "MultiAddresses_ret"
        /\ Len(loc[p].multis) >= 2
        /\ Cardinality({b \in BucketIndexes : Buckets[b] # <<>>}) >= 2
        /\ pc[q] \in {"Update", "Remove"}


(***************************************************************************)
(* Properties of the table of a node that serves RPCs (SpecNode).          *)
(***************************************************************************)
\* C5: in every reachable state every entry stored in bucket i has an
\* address X with IDLengthInBits - SamePrefixLength(A, X) - 1 = i.
C5_BucketIndex ==
    \A i \in BucketIndexes :
        \A j \in 1 .. Len(Buckets[i]) :
            IDLengthInBits - SamePrefixLength(A, Address(Buckets[i][j].multi)) - 1 = i

\* A served RPC has added its caller to the table, which now has entries in
\* two different buckets.
C5_Witness ==
    \E p \in Procs :
        /\ pc[p] \in {"ping_done", "queryCloserPeers_done"}
        /\ loc[p].notified
        /\ loc[p].uerr = NoErr
        /\ FindIn(Buckets, Address(loc[p].from)) = loc[p].from
        /\ Cardinality({i \in BucketIndexes : Buckets[i] # <<>>}) >= 2

\* C6: no bucket ever holds more than MaxBucketSize entries, whatever the
\* interleaving of the handlers, their updatePeer and Prune steps and the
\* inserts of Bootstrap.
C6_BucketCapacity ==
    \A i \in BucketIndexes : Len(Buckets[i]) <= MaxBucketSize

\* A handler found the bucket full, pruned its oldest entry and added its
\* caller in the slot freed, while the other handler is running.
C6_Witness ==
    \E p, q \in Procs :
        /\ p # q
        /\ pc[p] = "updatePeer_retried"
        /\ loc[p].err = NoErr
        /\ Len(Buckets[findBucket(Address(loc[p].from))]) = MaxBucketSize
        /\ FindIn(Buckets, Address(loc[p].from)) = loc[p].from
        /\ pc[q] \notin {"idle", "panic"}

NoSelfStored ==
    \A i \in BucketIndexes :
        \A j \in 1 .. Len(Buckets[i]) : Address(Buckets[i][j].multi) # A

\* C8: the owner's address A is never stored.  DHT.update of a MultiAddress
\* of A returns ErrDHTAddress and leaves the table as it was; updatePeer of
\* a MultiAddress of A returns nil without a call of the DHT; the loop of
\* bootstrapUsingMultiAddress passes over a peer whose address is A; no
\* bucket holds an entry whose address is A, before or after any step.
C8_SelfNeverStored ==
    [][/\ NoSelfStored /\ NoSelfStored'
       /\ \A p \in Procs :
            /\ (pc[p] = "update" /\ ~AddressErr(loc[p].arg)
                             /\ Address(loc[p].arg) = A /\ pc'[p] # pc[p])
               => /\ pc'[p] = "Update_ret"
                  /\ loc'[p].err = ErrDHTAddress
                  /\ Buckets' = Buckets
            /\ (pc[p] = "updatePeer" /\ ~AddressErr(loc[p].from)
                                 /\ Address(loc[p].from) = A /\ pc'[p] # pc[p])
               => /\ pc'[p] = loc[p].hret
                  /\ loc'[p].uerr = NoErr
                  /\ Buckets' = Buckets
            /\ (/\ pc[p] = "bootstrap_peers"
                /\ loc[p].peer < Len(loc[p].peers)
                /\ Address(loc[p].peers[loc[p].peer + 1]) = A
                /\ loc'[p] # loc[p])
               => /\ pc'[p] = "bootstrap_peers"
                  /\ loc'[p].peer = loc[p].peer + 1
                  /\ Buckets' = Buckets]_vars

\* A Ping from the owner's own MultiAddress has returned nil while the
\* Update of the owner's MultiAddress by Bootstrap was refused.
C8_Witness ==
    \E p, q \in Procs :
        /\ pc[p] = "ping_done"
        /\ Address(loc[p].from) = A
        /\ loc[p].uerr = NoErr
        /\ pc[q] = "Update_ret"
        /\ Address(loc[q].arg) = A
        /\ loc[q].err = ErrDHTAddress

\* C10: every MultiAddress in the response of QueryCloserPeers has an
\* address at a smaller XOR distance from the target than the node's own
\* address; the node's address is never in the response.
C10_ResponseCloser ==
    \A p \in Procs :
        \A i \in 1 .. Len(loc[p].resp) :
            /\ Distance(Address(loc[p].resp[i]), loc[p].query) < Distance(A, loc[p].query)
            /\ Address(loc[p].resp[i]) # A

\* QueryCloserPeers answers with a peer although the table also holds a
\* peer that is not closer to the target than the node.
C10_Witness ==
    \E p \in Procs :
        /\ pc[p] = "queryCloserPeers_done"
        /\ Len(loc[p].resp) >= 1
        /\ \E m \in AllMultiAddresses(Buckets) :
              Distance(Address(m), loc[p].query) >= Distance(A, loc[p].query)


(***************************************************************************)
(* Properties of the eviction probe (SpecSolo, SpecNode).                  *)
(***************************************************************************)
\* C16: with no other handler running, when the peer's bucket is full
\* without it and the ping of the bucket's oldest entry fails, Prune removes
\* that entry, the Update that is tried again returns nil, and the bucket
\* then holds MaxBucketSize entries: the survivors in the order they had,
\* the peer last and newest.
C16_PruneDeadOldest ==
    \A p \in Procs :
        pc[p] \in {"updatePeer_retried", "handlePing_retried"}
        => LET bucket == Buckets[findBucket(Address(loc[p].from))]
           IN  /\ Len(loc[p].seen) = MaxBucketSize
               /\ loc[p].err = NoErr
               /\ Len(bucket) = MaxBucketSize
               /\ SubSeq(bucket, 1, MaxBucketSize - 1) = Tail(loc[p].seen)
               /\ bucket[MaxBucketSize].multi = loc[p].from
               /\ \A j \in 1 .. (MaxBucketSize - 1) :
                     bucket[j].time < bucket[MaxBucketSize].time
               /\ FindIn(Buckets, Address(loc[p].seen[1].multi)) = NoMulti

\* The node's handler has pruned a bucket and stored its caller.
C16_Witness ==
    \E p \in Procs :
        /\ pc[p] = "updatePeer_retried"
        /\ Len(loc[p].seen) = MaxBucketSize
        /\ FindIn(Buckets, Address(loc[p].from)) = loc[p].from

\* C17: when the ping of the oldest entry succeeds, Prune changes nothing
\* in the table (its last step, the Update of the entry it probed, leaves
\* every bucket as it was just before), returns no error, and updatePeer
\* returns nil, under every interleaving with the other handlers.
C17_PruneLiveOldest ==
    [][\A p \in Procs :
          /\ (loc[p].ret = "Prune_updated" /\ pc'[p] # pc[p])
             => Buckets' = Buckets
          /\ (pc[p] = "Prune_updated" /\ pc'[p] # pc[p])
             => /\ loc[p].err = NoErr
                /\ loc'[p].uerr = NoErr]_vars

(***************************************************************************)
(* Properties of Bootstrap (SpecNode).                                     *)
(***************************************************************************)
\* A step of bootstrapUsingMultiAddress in which one lookup is sent.
Attempts(p) == pc[p] = "bootstrapUsingMultiAddress" /\ loc'[p].tries = loc[p].tries + 1

C19_BootstrapFailureSurfaces ==
    \A p \in Procs :
        (pc[p] = "Bootstrap_done" /\ loc[p].failures = Len(BootstrapMultiAddresses))
        => BootstrapResult(p) # NoErr

(***************************************************************************)
(* Properties of the frontier search (SpecFrontier, SpecFrontierLive).     *)
(***************************************************************************)
Unique(seq) == \A i, j \in 1 .. Len(seq) : seq[i] = seq[j] => i = j

AddrSeq(multis) == [i \in 1 .. Len(multis) |-> Address(multis[i])]

\* The labels of the search proper, from the first loop to the last pop.
Searching(p) ==
    pc[p] \in {"frontier_filter", "frontier_loop", "frontier_query",
               "frontier_candidates", "frontier_finish"}

\* C11: in one handling every address joins the frontier at most once: no
\* address is sent on the stream twice and no peer is queried twice,
\* whatever the replies (repeats, addresses seen, the node's own address).
C11_FrontierOnce ==
    \A p \in Procs :
        /\ Unique(AddrSeq(loc[p].popped \o loc[p].frontier))
        /\ Unique(AddrSeq(loc[p].stream))
        /\ Unique(loc[p].expanded)
        /\ A \notin Addrs(loc[p].stream)

\* The second peer queried has answered with a list that names, in every
\* place, one peer already sent on the stream.
C11_Witness ==
    \E p \in Procs :
        /\ pc[p] = "frontier_candidates"
        /\ Len(loc[p].expanded) >= 2
        /\ Len(loc[p].candidates) = MaxReply
        /\ \A i \in 1 .. MaxReply :
              /\ Address(loc[p].candidates[i]) = Address(loc[p].candidates[1])
              /\ Address(loc[p].candidates[i]) \in Addrs(loc[p].stream)

\* C12: when every reply holds only peers closer to the target than the
\* peer that sent it, every MultiAddress sent on the stream is closer to the
\* target than this node.
C12_EmittedCloser ==
    \A p \in Procs :
        loc[p].honest
        => \A i \in 1 .. Len(loc[p].stream) :
              Distance(Address(loc[p].stream[i]), loc[p].query) < Distance(A, loc[p].query)

\* A search with filtered replies has sent a peer it learnt from a reply.
C12_Witness ==
    \E p \in Procs :
        /\ pc[p] = "frontier_finish"
        /\ loc[p].honest
        /\ Len(loc[p].stream) > Len(loc[p].multis)

\* The table peers closer to the target than the node, in table order.
LocallyCloser(p) ==
    SelectSeq(loc[p].multis,
              LAMBDA m : Distance(Address(m), loc[p].query) < Distance(A, loc[p].query))

\* The place of address a in the sequence of MultiAddresses, 0 if absent.
PlaceOf(multis, a) ==
    IF a \in Addrs(multis)
    THEN CHOOSE i \in 1 .. Len(multis) : Address(multis[i]) = a
    ELSE 0

N2 == MultiAddress(4, 1)
N3 == MultiAddress(5, 1)

\* The scenario S5 at the end of the search: the node (N1) knows only N2,
\* the target is N3, and N2, the first peer queried, answered with N3 only.
S5(p) ==
    /\ pc[p] = "frontier_finish"
    /\ loc[p].multis = <<N2>>
    /\ loc[p].query = Address(N3)
    /\ loc[p].first = {Address(N3)}
    /\ loc[p].failed = {}

\* C14: the stream is the frontier in the order of discovery, first in first
\* out: what was sent is what was popped followed by what still waits; it
\* starts with the table peers closer to the target than the node, and
\* every later peer comes after a queried peer whose reply held it.  The
\* target is never queried.  In S5 the stream is exactly N2 then N3 and
\* only N2 was queried.
C14_DiscoveryOrder ==
    /\ [][\A p \in Procs :
            pc[p] = "frontier_candidates" /\ loc'[p].stream # loc[p].stream
            => /\ loc'[p].stream = Append(loc[p].stream, Head(loc[p].candidates))
               /\ PlaceOf(loc[p].stream, Address(loc[p].expanding)) \in 1 .. Len(loc[p].stream)
               /\ loc[p].expanding = loc[p].popped[Len(loc[p].popped)]]_vars
    /\ [](\A p \in Procs :
        /\ loc[p].stream = loc[p].popped \o loc[p].frontier
        /\ loc[p].query \notin {loc[p].expanded[i] : i \in 1 .. Len(loc[p].expanded)}
        /\ pc[p] \in {"frontier_loop", "frontier_query", "frontier_candidates",
                      "frontier_finish"}
           => /\ Len(loc[p].stream) >= Len(LocallyCloser(p))
              /\ SubSeq(loc[p].stream, 1, Len(LocallyCloser(p))) = LocallyCloser(p)
        /\ S5(p) => /\ loc[p].stream = <<N2, N3>>
                    /\ loc[p].expanded = <<Address(N2)>>
                    /\ loc[p].frontier = <<>>)

\* S5 has run to the end of the search.
C14_Witness == \E p \in Procs : S5(p) /\ loc[p].stream = <<N2, N3>>

\* The step in which the query of a frontier peer fails.
QueryFails(p) ==
    /\ pc[p] = "frontier_query"
    /\ loc'[p].failed # loc[p].failed

\* C15: a failed query of one frontier peer does not end the search: the
\* step goes back to the loop with the peer closed, sends nothing, adds
\* nothing to the frontier and sets no error; no peer is queried twice; when
\* the search ends every sent peer is closed and every sent peer but the
\* target was queried; the handler never returns the transport error.
C15_FailedPeerSkipped ==
    /\ [][\A p \in Procs :
            QueryFails(p)
            => /\ pc'[p] = "frontier_loop"
               /\ Address(loc[p].expanding) \in loc'[p].black
               /\ Address(loc[p].expanding) \in loc'[p].failed
               /\ loc'[p].stream = loc[p].stream
               /\ loc'[p].frontier = loc[p].frontier
               /\ loc'[p].uerr = NoErr]_vars
    /\ [](\A p \in Procs :
            /\ Unique(loc[p].expanded)
            /\ loc[p].failed # {} => loc[p].uerr # ErrTransport
            /\ pc[p] = "frontier_finish"
               => /\ Addrs(loc[p].stream) \subseteq loc[p].black
                  /\ Addrs(loc[p].stream) \ {loc[p].query}
                        \subseteq {loc[p].expanded[i] : i \in 1 .. Len(loc[p].expanded)})

\* The first peer queried failed, a later one answered with a new peer, and
\* the handler has ended without an error.
C15_Witness ==
    \E p \in Procs :
        /\ pc[p] = "frontier_done"
        /\ loc[p].uerr = NoErr
        /\ Len(loc[p].expanded) >= 2
        /\ loc[p].expanded[1] \in loc[p].failed
        /\ loc[p].expanded[2] \notin loc[p].failed
        /\ Len(loc[p].stream) > Len(LocallyCloser(p))

\* C13: when every call returns, a search that has started ends: the
\* handler reaches its return.  The delegate is notified only with the
\* frontier empty, nothing is sent once it is notified, the table is written
\* (updatePeer) only after the notification, and a handler that ends on a
\* failed send has neither notified the delegate nor written the table.
C13_SearchEnds ==
    /\ \A p \in Procs :
          (pc[p] = "queryCloserPeersOnFrontier") ~> (pc[p] = "frontier_done")
    /\ [](\A p \in Procs :
            /\ loc[p].notified => loc[p].frontier = <<>> /\ ~Searching(p)
            /\ pc[p] \in {"updatePeer", "updatePeer_updated", "updatePeer_retried"}
               => loc[p].notified
            /\ pc[p] = "frontier_done" /\ loc[p].uerr = ErrStream
               => ~loc[p].notified /\ clock = Len(Buckets[FilledIndex]))
    /\ [][\A p \in Procs :
            /\ loc'[p].stream # loc[p].stream /\ pc'[p] # "idle" => ~loc'[p].notified
            /\ Buckets' # Buckets /\ pc[p] # "idle" => loc[p].notified]_vars

\* The handler has ended a search that sent peers, notified the delegate
\* and updated the caller.
C13_Witness ==
    \E p \in Procs :
        /\ pc[p] = "frontier_done"
        /\ loc[p].notified
        /\ Len(loc[p].stream) >= 2
        /\ loc[p].uerr = NoErr

(***************************************************************************)
(* Properties of the cancellation of a handler (SpecCancel).               *)
(***************************************************************************)
\* The worker has its result, the handler has returned, and the send on
\* wait can never go through: the goroutine stays blocked.
WorkerStuck(p) ==
    /\ pc[p] \in SendLabels
    /\ loc[p].handler = "returned"
    /\ ~CanSend(p)

\* C20: once the context is cancelled the handler in its select can return
\* at once, whatever the worker is doing, and a handler that returned on
\* the cancellation returns its error; the worker is not stopped, and it
\* is never left blocked on handing its result over.
C20_CancelledHandler ==
    \A p \in Procs :
        /\ loc[p].handler = "select" /\ loc[p].ctx = "done" => ENABLED select_done(p)
        /\ loc[p].result = ErrCanceled => loc[p].ctx = "done"
        /\ ~WorkerStuck(p)

DoneLabels == {"ping_done", "queryCloserPeers_done"}

\* C22: a delegate callback is made only for an RPC that succeeds: when the
\* work of a handler has ended with an error, the delegate has not been
\* notified of that RPC.
C22_CallbackOnlyOnSuccess ==
    \A p \in Procs :
        pc[p] \in DoneLabels /\ loc[p].uerr # NoErr => ~loc[p].notified

\* C24: updatePeer never hands ErrFullBucket to the handler that called it,
\* whatever other handlers and callers of the table do meanwhile.
C24_NeverBucketFull ==
    \A p \in Procs :
        pc[p] \in DoneLabels => loc[p].uerr # ErrFullBucket

\* The labels at which the next step of a goroutine reads the contents of a
\* bucket: inside the methods of the DHT, and in Prune and
\* pruneMostRecentPeer through the reference FindBucket returned.
ReadLabels ==
    {"update", "update_write", "remove", "remove_write", "findMultiAddress",
     "multiAddresses", "multiAddresses_copy",
     "Prune_length", "Prune_oldest", "pruneMostRecentPeer_oldest"}

\* The labels at which a goroutine is inside the write of update or remove.
WriteLabels == {"update_write", "remove_write"}

HoldsLock(p) == mu.w = p \/ p \in mu.r

\* A goroutine is about to read a bucket while another one is modifying
\* the table.
ReadRacesWrite ==
    \E p, q \in Procs :
        /\ p # q
        /\ pc[p] \in ReadLabels
        /\ pc[q] \in WriteLabels

\* C23: a goroutine reads the contents of a bucket only with the lock of
\* the table held, shared or exclusive, so that no read of a bucket meets a
\* concurrent Update or Remove in the middle of its write.
C23_ReadsUnderLock ==
    /\ \A p \in Procs : pc[p] \in ReadLabels => HoldsLock(p)
    /\ ~ReadRacesWrite

\* The step in which the Remove that ends a prune takes an entry out.
PruneEvicts(p) ==
    /\ pc[p] = "remove_write"
    /\ loc[p].ret \in {"Prune_removed", "pruneMostRecentPeer_removed"}
    /\ Buckets' # Buckets

\* C25: a prune removes only what it probed: the entry it takes out is the
\* oldest of its bucket at that moment and holds the MultiAddress whose ping
\* failed.
C25_EvictsOnlyProbed ==
    [][\A p \in Procs :
         PruneEvicts(p)
         => /\ loc[p].idx = 1
            /\ Buckets[loc[p].bkt][1].multi = loc[p].oldest]_vars

(***************************************************************************)
(* Properties of the search for the target of an order fragment            *)
(* (SpecSearch).                                                            *)
(***************************************************************************)
\* C26: the search asks no address for its peers more than once, also when
\* several peers it asked name the same address that is not closed yet, and
\* it never asks the node itself or the sender of the fragment.
C26_ExpandedOnce ==
    \A p \in Procs :
        /\ Unique(loc[p].expanded)
        /\ \A k \in 1 .. Len(loc[p].expanded) :
              /\ loc[p].expanded[k] # A
              /\ loc[p].expanded[k] # Address(loc[p].from)

\* The dispatching loop is about to write open and closed while a worker is
\* inside its merge, or about to read open while a worker is about to write it.
SearchRace(p) ==
    \/ /\ pc[p] = "search_pop_write"
       /\ \E w \in Workers : WorkerAt(p, w, "merge") \/ WorkerAt(p, w, "append")
    \/ /\ pc[p] = "search_pop"
       /\ loc[p].i < loc[p].asyncRoutines
       /\ \E w \in Workers : WorkerAt(p, w, "append")

\* C27: with three workers a round, under every interleaving of the workers
\* and the dispatching loop, a peer that a worker appended to the open list
\* is in the open list until it is closed, and no access of the loop to the
\* open list or the closed set meets an access of a worker.
C27_NoCandidateLost ==
    \A p \in Procs :
        /\ loc[p].reported \subseteq (Addrs(loc[p].open) \cup loc[p].closed)
        /\ ~SearchRace(p)
====
